---- MODULE Spec2Model ----
(***************************************************************************)
(* Verification model of avail-core's data-availability primitives.       *)
(*                                                                         *)
(* Part 1: the application index DataLookup (core/src/data_lookup/v4.rs)   *)
(* and its wire form CompactDataLookup (core/src/data_lookup/compact.rs).  *)
(* Part 2: verify_multi_proof and verify_v2 (kate/recovery/src/proof.rs).  *)
(* Part 3: the grid pipeline of kate/src/gridgen.                          *)
(* Part 4: the byte codecs of GCellBlock and MultiProofCell                *)
(* (kate/recovery/src/data.rs), the row merge of cells, and padded_len     *)
(* (kate/src/lib.rs).                                                      *)
(* Part 5: the codec of AppUncheckedExtrinsic (core/src/asdr.rs).          *)
(* Part 6: DataProof::try_from (primitives/avail/src/data_proof.rs).       *)
(* Part 7: Justifications (core/src/from_substrate/justifications.rs).     *)
(*                                                                         *)
(* Integer widths.  TLC's integers are 32-bit signed, so a u32 cannot be   *)
(* held at its real width.  The u32 counters of the code are modelled at   *)
(* U32Bits bits (u32::MAX is U32Max = 2^U32Bits - 1); u16 keeps its real   *)
(* width of 16 bits.  Every comparison, checked addition and truncating    *)
(* cast of the code is kept, only the modulus of u32 is scaled.            *)
(* In the byte codecs of Part 4 a byte is ByteBits bits wide and every     *)
(* integer keeps its number of bytes: a u32 is four bytes, a u64 eight, a  *)
(* usize four or eight.  Lengths in bytes (16, 48, 32, 68) are real.       *)
(***************************************************************************)
EXTENDS Integers, Sequences, FiniteSets, TLC

VARIABLES
    pc,         \* lifecycle position of the lookup under study
    origin,     \* where the lookup under study came from
    iter,       \* the (AppId, length) list handed to from_id_and_len_iter
    built,      \* Result<DataLookup, Error> of from_id_and_len_iter, or NoCall
    lookup,     \* Option<DataLookup>: the DataLookup in hand
    compact,    \* Option<CompactDataLookup>: the compact (wire) form in hand
    trips,      \* compact/expand round trips completed on the lookup
    last,       \* record of the last conversion or query: [op, arg, out]
    overflow_checks,  \* the build: are integer overflows checked (panic) or not (wrap)
    mp_pc,      \* verify_multi_proof: "idle", "returned" or "panicked"
    mp_args,    \* verify_multi_proof: the arguments of the call
    mp_out,     \* verify_multi_proof: what the call returned
    v2_pc,      \* verify_v2: "idle", "returned", "flipped"; verify: "verified"
    v2_args,    \* verify_v2: the arguments of the call
    v2_out,     \* verify_v2: Result<bool, Error> of the call
    g_pc,       \* grid pipeline: "idle", "grid", "extended", "serial", "committing", ...
    g_in,       \* the arguments of from_extrinsics
    g_grid,     \* Result<EvaluationGrid, Error> of from_extrinsics
    g_ext,      \* the grid after extend_columns(2)
    g_commits,  \* the row commitments of the two serial paths
    g_order,    \* parallel builder: the rows in the order their workers finished
    g_par,      \* parallel builder: the commitments it returned
    g_last,     \* record of the last proof or verification on the grid
    c_pc,       \* cell codec: "idle", "encoded", "malformed", "decoded", "rejected"
    c_value,    \* the structure that was encoded
    c_bytes,    \* the bytes in hand
    c_usize,    \* bytes of a usize on the target that decoded
    c_out,      \* what from_bytes did
    j_list,     \* Justifications: the Vec<Justification> of the collection
    j_log       \* the calls made on the collection: [op, arg, out, before]

lookupVars == <<pc, origin, iter, built, lookup, compact, trips, last>>
multiVars == <<mp_pc, mp_args, mp_out>>
cellVars == <<v2_pc, v2_args, v2_out>>
proofVars == <<overflow_checks, multiVars, cellVars>>
gridVars == <<g_pc, g_in, g_grid, g_ext, g_commits, g_order, g_par, g_last>>
codecVars == <<c_pc, c_value, c_bytes, c_usize, c_out>>
justVars == <<j_list, j_log>>
vars == <<lookupVars, proofVars, gridVars, codecVars, justVars>>

----------------------------------------------------------------------------
(* Bounds of the model *)

\* longest (AppId, length) list handed to from_id_and_len_iter
MaxTxs == 3
\* longest item list of a CompactDataLookup read from the wire
MaxItems == 2
\* modelled width of u32 (see the note on integer widths above)
U32Bits == 20
\* width of u16, the element type of rows_per_tx
U16Bits == 16
\* most compact/expand round trips followed on one lookup
MaxTrips == 2
\* longest list of (evaluations, proof, block) triples handed to verify_multi_proof
MaxTriples == 2
\* largest evaluation domain the field supports (2^32 for BLS12-381's Fr)
MaxDomain == 4
\* modelled width of a byte of the cell codec (see Part 4)
ByteBits == 2
\* most cells handed to rows
MaxCells == 3
\* most append and remove calls followed on one Justifications
MaxOps == 4

U32Max == 2^U32Bits - 1
U32Mod == 2^U32Bits
U16Mod == 2^U16Bits

\* application ids submitted or read from the wire
AppIds == 0..2
\* transaction lengths submitted: empty, small, just past u16, at and past u32
Lens == {0, 1, 2, U16Mod, U32Max, U32Max + 1}
\* sizes and start offsets read from the wire
WireSizes == {0, 1, 2, 3, U32Max}
WireStarts == 0..3
WireRows == {<<>>, <<1, 2>>}

----------------------------------------------------------------------------
(* Rust's Option and Result *)

None == [some |-> FALSE]
Some(v) == [some |-> TRUE, val |-> v]
Ok(v) == [ok |-> TRUE, val |-> v]
Err(e) == [ok |-> FALSE, err |-> e]
NoCall == [ok |-> FALSE, err |-> [kind |-> "NoCall"]]

\* enum Error
DataNotSorted == [kind |-> "DataNotSorted"]
DataEmptyOn(id) == [kind |-> "DataEmptyOn", id |-> id]
OffsetOverflows == [kind |-> "OffsetOverflows"]

RECURSIVE SumSeq(_)
SumSeq(s) == IF s = <<>> THEN 0 ELSE Head(s) + SumSeq(Tail(s))

Min(a, b) == IF a <= b THEN a ELSE b

\* u32::try_from(len): fails when len is not representable as u32
U32TryFrom(n) == IF n >= 0 /\ n <= U32Max THEN Some(n) ELSE None

\* mutant of checked_add: a wrapping addition
wrapping_add(a, b) == Some((a + b) % U32Mod)

\* u32::checked_add
checked_add(a, b) == IF a + b <= U32Max THEN Some(a + b) ELSE None

\* `len as u16`: a truncating cast
AsU16(n) == n % U16Mod

Range(s, e) == [start |-> s, end |-> e]

\* Range::is_empty
RangeIsEmpty(r) == r.start >= r.end

----------------------------------------------------------------------------
(* DataLookup *)

DataLookup(index, rows_per_tx) == [index |-> index, rows_per_tx |-> rows_per_tx]

len(l) == IF l.index = <<>> THEN 0 ELSE l.index[Len(l.index)].range.end

is_empty(l) == len(l) = 0

is_error(l) == is_empty(l) /\ l.index # <<>>

new_empty == DataLookup(<<>>, <<>>)

\* mutant of new_error: the index left empty
new_error_no_entry == DataLookup(<<>>, <<>>)

new_error == DataLookup(<<[id |-> 0, range |-> Range(0, 0)]>>, <<>>)

\* the state of from_id_and_len_iter's loop
IterInit ==
    [offset |-> 0, last_id |-> None, index |-> <<>>, rows_per_tx |-> <<>>,
     current_rows_per_tx |-> <<>>]

\* store the range and the row counts of the app id that just ended
PushRange(st) ==
    LET range_start == (st.offset - SumSeq(st.current_rows_per_tx)) % U32Mod
    IN  [st EXCEPT
            !.index = Append(@, [id |-> st.last_id.val,
                                 range |-> Range(range_start, st.offset)]),
            !.rows_per_tx = @ \o st.current_rows_per_tx]

\* the row count recorded for one transaction: `len as u16`
RowsOfTx(n) == AsU16(n)

\* mutant of InOrder: `>` for `>=`
InOrderStrict(last_id, id) == last_id.some => id > last_id.val

\* app ids must be non-decreasing: ensure!(id.0 >= prev_id.0, DataNotSorted)
InOrder(last_id, id) == last_id.some => id >= last_id.val

RECURSIVE IterLoop(_, _)
IterLoop(it, st) ==
    IF it = <<>> THEN Ok(st)
    ELSE
    LET id == Head(it).id
        conv == U32TryFrom(Head(it).len)
    IN  IF ~conv.some THEN Err(OffsetOverflows)
        ELSE IF ~(conv.val > 0) THEN Err(DataEmptyOn(id))
        ELSE IF ~InOrder(st.last_id, id) THEN Err(DataNotSorted)
        ELSE
        LET st1 == IF Some(id) # st.last_id
                   THEN [(IF st.last_id.some THEN PushRange(st) ELSE st) EXCEPT
                            !.last_id = Some(id),
                            !.current_rows_per_tx = <<>>]
                   ELSE st
            sum == checked_add(st1.offset, conv.val)
        IN  IF ~sum.some THEN Err(OffsetOverflows)
            ELSE IterLoop(Tail(it),
                          [st1 EXCEPT
                              !.offset = sum.val,
                              !.current_rows_per_tx = Append(@, RowsOfTx(conv.val))])

from_id_and_len_iter(it) ==
    LET r == IterLoop(it, IterInit)
    IN  IF ~r.ok THEN r
        ELSE LET st == IF r.val.last_id.some THEN PushRange(r.val) ELSE r.val
             IN  Ok(DataLookup(st.index, st.rows_per_tx))

----------------------------------------------------------------------------
(* DataLookup queries *)

\* Iterator::find over the index: position of the first entry of app_id, or 0
RECURSIVE FindFrom(_, _, _)
FindFrom(index, app_id, i) ==
    IF i > Len(index) THEN 0
    ELSE IF index[i].id = app_id THEN i
    ELSE FindFrom(index, app_id, i + 1)

range_of(l, app_id) ==
    LET i == FindFrom(l.index, app_id, 1)
    IN  IF i = 0 THEN None ELSE Some(l.index[i].range)

\* (from..from + n).map(|i| i as u32).collect()
RowIndices(from, n) == [k \in 1..n |-> (from + k - 1) % U32Mod]

\* rows.min(end - tx_start) in usize: the subtraction cannot go below zero for
\* a range with start <= end; a build without overflow checks wraps it to a
\* value above every u16, which leaves `rows`
TxRowCount(rows, end, tx_start) ==
    IF end >= tx_start THEN Min(rows, end - tx_start) ELSE rows

\* the `for &rows in &self.rows_per_tx` loop of app_txs, with its break
RECURSIVE AppTxsLoop(_, _, _, _)
AppTxsLoop(rows_left, range, st, stopped) ==
    IF stopped \/ rows_left = <<>> THEN st.tx_rows
    ELSE
    LET rows == Head(rows_left)
        hit == st.current_index + rows > range.start
        st1 == IF hit
               THEN [st EXCEPT
                        !.tx_rows = Append(@, RowIndices(st.tx_start,
                                        TxRowCount(rows, range.end, st.tx_start))),
                        !.tx_start = @ + rows]
               ELSE st
        st2 == [st1 EXCEPT !.current_index = @ + rows]
    IN  AppTxsLoop(Tail(rows_left), range, st2, st2.tx_start >= range.end)

app_txs(l, app_id) ==
    LET range == range_of(l, app_id)
    IN  IF ~range.some THEN None
        ELSE Some(AppTxsLoop(l.rows_per_tx, range.val,
                             [tx_rows |-> <<>>, tx_start |-> range.val.start,
                              current_index |-> 0],
                             FALSE))

RECURSIVE TransactionsLoop(_, _)
TransactionsLoop(l, i) ==
    IF i > Len(l.index) THEN <<>>
    ELSE LET tx_rows == app_txs(l, l.index[i].id)
         IN  (IF tx_rows.some
              THEN <<[id |-> l.index[i].id, txs |-> tx_rows.val]>>
              ELSE <<>>) \o TransactionsLoop(l, i + 1)

transactions(l) ==
    LET result == TransactionsLoop(l, 1)
    IN  IF result = <<>> THEN None ELSE Some(result)

----------------------------------------------------------------------------
(* CompactDataLookup *)

DataLookupItem(app_id, start) == [app_id |-> app_id, start |-> start]

CompactDataLookup(size, index, rows_per_tx) ==
    [size |-> size, index |-> index, rows_per_tx |-> rows_per_tx]

compact_is_error(c) == c.size = U32Max \/ (c.size = 0 /\ c.index # <<>>)

compact_new_error == CompactDataLookup(0, <<DataLookupItem(0, 0)>>, <<>>)

\* mutant of CompactIndex: the filter on AppId(0) left out
CompactIndexUnfiltered(index) ==
    [k \in 1..Len(index) |-> DataLookupItem(index[k].id, index[k].range.start)]

\* .filter(|(id, _)| *id != AppId(0)).map(|(id, range)| item(id, range.start))
RECURSIVE CompactIndex(_)
CompactIndex(index) ==
    IF index = <<>> THEN <<>>
    ELSE (IF Head(index).id # 0
          THEN <<DataLookupItem(Head(index).id, Head(index).range.start)>>
          ELSE <<>>) \o CompactIndex(Tail(index))

\* the row counts travel with the compact form unchanged
CompactRows(l) == l.rows_per_tx

from_data_lookup(l) ==
    IF is_error(l) THEN compact_new_error
    ELSE CompactDataLookup(
            IF l.index = <<>> THEN 0 ELSE l.index[Len(l.index)].range.end,
            CompactIndex(l.index),
            CompactRows(l))

\* the `for c_item in compacted.index` loop of try_from
RECURSIVE ExpandLoop(_, _)
ExpandLoop(items, st) ==
    IF items = <<>> THEN st
    ELSE LET c_item == Head(items)
         IN  ExpandLoop(Tail(items),
                [index |-> Append(st.index, [id |-> st.prev_id,
                                             range |-> Range(st.offset, c_item.start)]),
                 prev_id |-> c_item.app_id,
                 offset |-> c_item.start])

try_from(c) ==
    IF compact_is_error(c) THEN Ok(new_error)
    ELSE
    LET st == ExpandLoop(c.index, [index |-> <<>>, prev_id |-> 0, offset |-> 0])
        last_range == Range(st.offset, c.size)
        index == IF ~RangeIsEmpty(last_range)
                 THEN Append(st.index, [id |-> st.prev_id, range |-> last_range])
                 ELSE st.index
        l == DataLookup(index, c.rows_per_tx)
    IN  IF len(l) = c.size THEN Ok(l) ELSE Err(DataNotSorted)

----------------------------------------------------------------------------
(* Inputs *)

Txs == [id : AppIds, len : Lens]

RECURSIVE SeqsUpTo(_, _)
SeqsUpTo(S, n) ==
    IF n = 0 THEN {<<>>}
    ELSE LET shorter == SeqsUpTo(S, n - 1)
         IN  shorter \cup {Append(s, x) : s \in {t \in shorter : Len(t) = n - 1}, x \in S}

\* the lists handed to from_id_and_len_iter
Iters == SeqsUpTo(Txs, MaxTxs)

\* the values CompactDataLookup::decode can produce from header bytes
WireItems == [app_id : AppIds, start : WireStarts]
WireCompacts ==
    {CompactDataLookup(size, index, rows) :
        size \in WireSizes, index \in SeqsUpTo(WireItems, MaxItems), rows \in WireRows}

----------------------------------------------------------------------------
(* Lifecycle of one lookup: it is built by the block author, or set by the *)
(* header builder (empty or faulty header), or read from header bytes; it  *)
(* is then encoded and decoded any number of times, and queried.           *)

InitLookup ==
    /\ pc = "start"
    /\ origin = "none"
    /\ iter = <<>>
    /\ built = NoCall
    /\ lookup = None
    /\ compact = None
    /\ trips = 0
    /\ last = [op |-> "none"]

\* DataLookup::from_id_and_len_iter
Build ==
    /\ pc = "start"
    /\ \E it \in Iters :
        LET r == from_id_and_len_iter(it)
        IN  /\ iter' = it
            /\ built' = r
            /\ lookup' = IF r.ok THEN Some(r.val) ELSE None
            /\ pc' = IF r.ok THEN "lookup" ELSE "failed"
            /\ last' = [op |-> "from_id_and_len_iter", arg |-> it, out |-> r]
    /\ origin' = "built"
    /\ UNCHANGED <<compact, trips, proofVars, gridVars, codecVars, justVars>>

\* HeaderExtension::get_empty_header
EmptyHeader ==
    /\ pc = "start"
    /\ lookup' = Some(new_empty)
    /\ pc' = "lookup"
    /\ origin' = "empty_header"
    /\ last' = [op |-> "get_empty_header", arg |-> <<>>, out |-> new_empty]
    /\ UNCHANGED <<iter, built, compact, trips, proofVars, gridVars, codecVars, justVars>>

\* HeaderExtension::get_faulty_header
FaultyHeader ==
    /\ pc = "start"
    /\ lookup' = Some(new_error)
    /\ pc' = "lookup"
    /\ origin' = "faulty_header"
    /\ last' = [op |-> "get_faulty_header", arg |-> <<>>, out |-> new_error]
    /\ UNCHANGED <<iter, built, compact, trips, proofVars, gridVars, codecVars, justVars>>

\* CompactDataLookup::decode of header bytes received from a peer
Receive ==
    /\ pc = "start"
    /\ \E c \in WireCompacts :
        /\ compact' = Some(c)
        /\ last' = [op |-> "decode", arg |-> <<>>, out |-> c]
    /\ pc' = "compact"
    /\ origin' = "wire"
    /\ UNCHANGED <<iter, built, lookup, trips, proofVars, gridVars, codecVars, justVars>>

\* Encode for DataLookup: CompactDataLookup::from_data_lookup
Compact ==
    /\ pc = "lookup"
    /\ trips < MaxTrips
    /\ LET c == from_data_lookup(lookup.val)
       IN  /\ compact' = Some(c)
           /\ last' = [op |-> "from_data_lookup", arg |-> lookup.val, out |-> c]
    /\ pc' = "compact"
    /\ UNCHANGED <<origin, iter, built, lookup, trips, proofVars, gridVars, codecVars, justVars>>

\* Decode for DataLookup: DataLookup::try_from(CompactDataLookup)
Expand ==
    /\ pc = "compact"
    /\ LET r == try_from(compact.val)
       IN  /\ lookup' = IF r.ok THEN Some(r.val) ELSE None
           /\ pc' = IF r.ok THEN "lookup" ELSE "failed"
           /\ last' = [op |-> "try_from", arg |-> compact.val, out |-> r]
    /\ trips' = IF lookup.some THEN trips + 1 ELSE trips
    /\ UNCHANGED <<origin, iter, built, compact, proofVars, gridVars, codecVars, justVars>>

\* DataLookup::app_txs
AppTxs ==
    /\ pc = "lookup"
    /\ \E app_id \in AppIds \cup {Cardinality(AppIds)} :
        last' = [op |-> "app_txs", arg |-> app_id, out |-> app_txs(lookup.val, app_id)]
    /\ pc' = "queried"
    /\ UNCHANGED <<origin, iter, built, lookup, compact, trips, proofVars, gridVars, codecVars, justVars>>

\* a multiplication that wraps
wrapping_mul(a, b) == Some((a * b) % U32Mod)

\* u32::checked_mul
checked_mul(a, b) == IF b # 0 /\ a > U32Max \div b THEN None ELSE Some(a * b)

projected_range_of(l, app_id, chunk_size) ==
    LET range == range_of(l, app_id)
    IN  IF ~range.some THEN None
        ELSE LET start == checked_mul(range.val.start, chunk_size)
                 end == checked_mul(range.val.end, chunk_size)
             IN  IF ~start.some THEN None
                 ELSE IF ~end.some THEN None
                 ELSE Some(Range(start.val, end.val))

\* the map of projected_ranges, collected into a Result: the first error, or
\* every projected entry
RECURSIVE ProjectLoop(_, _, _)
ProjectLoop(index, chunk_size, done) ==
    IF index = <<>> THEN Ok(done)
    ELSE LET start == checked_mul(Head(index).range.start, chunk_size)
             end == checked_mul(Head(index).range.end, chunk_size)
         IN  IF ~start.some THEN Err(OffsetOverflows)
             ELSE IF ~end.some THEN Err(OffsetOverflows)
             ELSE ProjectLoop(Tail(index), chunk_size,
                              Append(done, [id |-> Head(index).id,
                                            range |-> Range(start.val, end.val)]))

projected_ranges(l, chunk_size) == ProjectLoop(l.index, chunk_size, <<>>)

\* chunk sizes a range is projected by
ChunkFactors == {0, 1, 2, 32, 512}

ProjectedRangeOf ==
    /\ pc = "lookup"
    /\ \E app_id \in AppIds \cup {Cardinality(AppIds)}, chunk_size \in ChunkFactors :
        last' = [op |-> "projected_range_of", arg |-> <<app_id, chunk_size>>,
                 out |-> projected_range_of(lookup.val, app_id, chunk_size)]
    /\ pc' = "queried"
    /\ UNCHANGED <<origin, iter, built, lookup, compact, trips, proofVars, gridVars, codecVars, justVars>>

ProjectedRanges ==
    /\ pc = "lookup"
    /\ \E chunk_size \in ChunkFactors :
        last' = [op |-> "projected_ranges", arg |-> chunk_size,
                 out |-> projected_ranges(lookup.val, chunk_size)]
    /\ pc' = "queried"
    /\ UNCHANGED <<origin, iter, built, lookup, compact, trips, proofVars, gridVars, codecVars, justVars>>

\* DataLookup::transactions
Transactions ==
    /\ pc = "lookup"
    /\ last' = [op |-> "transactions", arg |-> <<>>, out |-> transactions(lookup.val)]
    /\ pc' = "queried"
    /\ UNCHANGED <<origin, iter, built, lookup, compact, trips, proofVars, gridVars, codecVars, justVars>>

----------------------------------------------------------------------------
(* verify_multi_proof (kate/recovery/src/proof.rs)                         *)
(*                                                                         *)
(* Field and group elements are abstract.  A scalar, a commitment and a    *)
(* proof are byte strings that either deserialize or do not.  The scalar   *)
(* field is scaled to the prime field of order Modulus, whose largest      *)
(* radix-2 evaluation domain has Modulus - 1 points.  A commitment is      *)
(* binding: one that deserializes is identified with the polynomial it     *)
(* commits to, a vector of Modulus - 1 coefficients.  The proof of a       *)
(* single cell is the commitment of the witness polynomial; the proof of   *)
(* a block names the opening (row polynomials, points) it was made for.    *)

\* enum Error of kate_recovery::proof
InvalidDomain == [kind |-> "InvalidDomain"]
FailedToConvertEvalsToArkScalar == [kind |-> "FailedToConvertEvalsToArkScalar"]
FailedToParseProof == [kind |-> "FailedToParseProof"]
FailedToExtractCommitments == [kind |-> "FailedToExtractCommitments"]
FailedToVerifyProof == [kind |-> "FailedToVerifyProof"]

GCellBlock(start_x, start_y, end_x, end_y) ==
    [start_x |-> start_x, start_y |-> start_y, end_x |-> end_x, end_y |-> end_y]

\* bytes that do not deserialize, and bytes that deserialize to v
BadBytes == [ok |-> FALSE]
Bytes(v) == [ok |-> TRUE, v |-> v]

\* the scalar field Fr, scaled, and a generator of its multiplicative group
Modulus == 5
Generator == 2
Fr == 0..(Modulus - 1)

FAdd(a, b) == (a + b) % Modulus
FSub(a, b) == (a + Modulus - b) % Modulus
FMul(a, b) == (a * b) % Modulus
RECURSIVE FPow(_, _)
FPow(a, e) == IF e = 0 THEN 1 ELSE FMul(a, FPow(a, e - 1))
FInv(a) == FPow(a, Modulus - 2)

\* polynomials are vectors of PolyLen coefficients, lowest degree first
PolyLen == Modulus - 1
ZeroPoly == [i \in 1..PolyLen |-> 0]
RECURSIVE Horner(_, _, _)
Horner(p, x, i) == IF i > Len(p) THEN 0 ELSE FAdd(p[i], FMul(x, Horner(p, x, i + 1)))

\* the value of polynomial p at point x
Val(p, x) == Horner(p, x, 1)

\* usize::next_power_of_two
RECURSIVE NextPow2From(_, _)
NextPow2From(n, k) == IF k >= n THEN k ELSE NextPow2From(n, 2 * k)
NextPow2(n) == NextPow2From(n, 1)

\* GeneralEvaluationDomain::new(n) exists for sizes up to the field's largest
\* radix-2 domain; its elements are the points 0 .. size - 1
domain_points(n) ==
    IF NextPow2(n) > MaxDomain THEN Err(InvalidDomain)
    ELSE Ok([k \in 1..NextPow2(n) |->
                FPow(Generator, (k - 1) * ((Modulus - 1) \div NextPow2(n)))])

\* a - b in u32: a panic in a build with overflow checks, a wrap in one without
U32Sub(a, b, checks) ==
    IF a >= b THEN Some(a - b)
    ELSE IF checks THEN None
    ELSE Some(a - b + U32Mod)

\* slice::chunks_exact(n), n > 0: the whole chunks, the remainder dropped
chunks_exact(s, n) ==
    [r \in 1..(Len(s) \div n) |-> [c \in 1..n |-> s[(r - 1) * n + c]]]

\* Iterator::skip(n).take(m)
SkipTake(s, n, m) ==
    [k \in 1..Min(m, IF Len(s) > n THEN Len(s) - n ELSE 0) |-> s[n + k]]

\* has every element deserialized
AllOk(s) == \A k \in 1..Len(s) : s[k].ok

\* PolyMultiProofNoPrecomp::verify of the poly_multiproof crate, as an ideal
\* verifier: Err when the evaluation grid does not have one row per
\* commitment and one column per point; otherwise true exactly when the proof
\* is the opening of these commitments at these points and every evaluation
\* is the value of its row polynomial at its point
PmpVerify(commits, points, evals_grid, proof) ==
    IF \/ Len(evals_grid) # Len(commits)
       \/ \E r \in 1..Len(evals_grid) : Len(evals_grid[r]) # Len(points)
    THEN Err(FailedToVerifyProof)
    ELSE Ok(/\ proof = [polys |-> commits, pts |-> points]
            /\ \A r \in 1..Len(commits) : \A c \in 1..Len(points) :
                    evals_grid[r][c] = Val(commits[r], points[c]))

\* the row commitments handed to the verifier:
\* commitments.chunks_exact(48).skip(start_y).take(end_y - start_y)
CommitChunks(chunks, start_y, rows) == SkipTake(chunks, start_y, rows)

\* outcomes of one pass through the loop body
Verified == [kind |-> "verified"]
ReturnFalse == [kind |-> "false"]
ReturnErr(e) == [kind |-> "err", err |-> e]
Panics == [kind |-> "panic"]

\* the body of `for ((eval, proof), cellblock) in proof.iter()`
VerifyBlock(t, points, commitments, checks) ==
    LET b == t.block
        width == U32Sub(b.end_x, b.start_x, checks)
        rows == U32Sub(b.end_y, b.start_y, checks)
    IN  IF ~AllOk(t.evals) THEN ReturnErr(FailedToConvertEvalsToArkScalar)
        ELSE IF ~width.some THEN Panics
        ELSE IF width.val = 0 THEN Panics
        ELSE IF ~t.proof.ok THEN ReturnErr(FailedToParseProof)
        ELSE IF ~rows.some THEN Panics
        ELSE
        LET evals_flat == [k \in 1..Len(t.evals) |-> t.evals[k].v]
            evals_grid == chunks_exact(evals_flat, width.val)
            chunks == CommitChunks(commitments.chunks, b.start_y, rows.val)
        IN  IF ~AllOk(chunks) THEN ReturnErr(FailedToExtractCommitments)
            ELSE IF b.start_x > b.end_x \/ b.end_x > Len(points) THEN Panics
            ELSE
            LET commits == [k \in 1..Len(chunks) |-> chunks[k].v]
                verified == PmpVerify(commits,
                                      SubSeq(points, b.start_x + 1, b.end_x),
                                      evals_grid, t.proof.v)
            IN  IF ~verified.ok THEN ReturnErr(FailedToVerifyProof)
                ELSE IF ~verified.val THEN ReturnFalse
                ELSE Verified

\* what a call returns: Ok(bool), Err(e) or a panic; `at` counts the triples
\* the loop has taken from the list
Returned(r, at) == [kind |-> "return", res |-> r, at |-> at]
Panicked(at) == [kind |-> "panic", at |-> at]

RECURSIVE VerifyLoop(_, _, _, _, _)
VerifyLoop(proof, i, points, commitments, checks) ==
    IF i > Len(proof) THEN Returned(Ok(TRUE), Len(proof))
    ELSE LET o == VerifyBlock(proof[i], points, commitments, checks)
         IN  IF o.kind = "panic" THEN Panicked(i)
             ELSE IF o.kind = "err" THEN Returned(Err(o.err), i)
             ELSE IF o.kind = "false" THEN Returned(Ok(FALSE), i)
             ELSE VerifyLoop(proof, i + 1, points, commitments, checks)

verify_multi_proof(proof, commitments, cols, checks) ==
    LET points == domain_points(cols)
    IN  IF ~points.ok THEN Returned(points, 0)
        ELSE VerifyLoop(proof, 1, points.val, commitments, checks)

----------------------------------------------------------------------------
(* Inputs of verify_multi_proof *)

\* the row polynomials of the published grid
RowPolys == << <<1, 1, 0, 0>>, <<2, 0, 3, 0>> >>

\* what an honest prover sends for row polynomials `ys` and points `xs`
HonestEvals(ys, xs) ==
    [k \in 1..(Len(ys) * Len(xs)) |->
        Bytes(Val(ys[((k - 1) \div Len(xs)) + 1], xs[((k - 1) % Len(xs)) + 1]))]
HonestProof(ys, xs) == Bytes([polys |-> ys, pts |-> xs])

Triple(evals, proof, block) == [evals |-> evals, proof |-> proof, block |-> block]

\* the i-th scalar replaced by a different one
Flip(evals, i) == [evals EXCEPT ![i] = Bytes(FAdd(@.v, 1))]

\* what can be sent for a block over rows ys and points xs: the honest
\* triple, a wrong evaluation, the proof of another opening, a scalar or a
\* proof that does not deserialize, a surplus scalar
Variants(block, ys, xs) ==
    LET e == HonestEvals(ys, xs)
        p == HonestProof(ys, xs)
    IN  { Triple(e, p, block),
          Triple(Flip(e, Len(e)), p, block),
          Triple(e, HonestProof(ys, <<0>>), block),
          Triple([e EXCEPT ![1] = BadBytes], p, block),
          Triple(e, BadBytes, block),
          Triple(Append(e, Bytes(0)), p, block) }

\* the domain points the caller builds its blocks for
PointsFor(cols) ==
    LET points == domain_points(cols)
    IN  IF points.ok THEN points.val ELSE domain_points(1).val

\* the members of s with 0-based indices in [a, b)
Slice(s, a, b) == SkipTake(s, a, IF b > a THEN b - a ELSE 0)

\* the triples an honest prover would send for a block of the published grid
ForBlock(block, points) ==
    Variants(block, Slice(RowPolys, block.start_y, block.end_y),
             Slice(points, block.start_x, block.end_x))

Triples(cols) ==
    LET points == PointsFor(cols)
    IN  \* well-formed blocks of a grid with two rows
        ForBlock(GCellBlock(0, 0, 2, 1), points)
        \cup ForBlock(GCellBlock(1, 1, 2, 2), points)
        \cup ForBlock(GCellBlock(0, 0, 1, 2), points)
        \* ill-formed blocks: no column, end_x < start_x, end_y < start_y (sent
        \* with the opening of row 1), end_x past the domain of a narrow grid
        \cup { Triple(<<>>, HonestProof(<<RowPolys[1]>>, <<>>), GCellBlock(1, 0, 1, 1)),
               Triple(HonestEvals(<<RowPolys[1]>>, <<points[1]>>),
                      HonestProof(<<RowPolys[1]>>, <<points[1]>>),
                      GCellBlock(2, 0, 1, 1)),
               Triple(HonestEvals(<<RowPolys[2]>>, <<points[1]>>),
                      HonestProof(<<RowPolys[2]>>, <<points[1]>>),
                      GCellBlock(0, 1, 1, 0)),
               Triple(HonestEvals(<<RowPolys[1]>>, Slice(points, 0, 4)),
                      HonestProof(<<RowPolys[1]>>, Slice(points, 0, 4)),
                      GCellBlock(0, 0, 4, 1)) }

\* the commitments argument: 48-byte chunks, each the commitment of a row
\* polynomial or bytes that are no commitment, and `rest` trailing bytes
Commitments(chunks, rest) == [chunks |-> chunks, rest |-> rest]
CommitmentInputs ==
    { Commitments(<<Bytes(RowPolys[1]), Bytes(RowPolys[2])>>, 0),
      Commitments(<<Bytes(RowPolys[1]), Bytes(RowPolys[2])>>, 1),
      Commitments(<<BadBytes, Bytes(RowPolys[2])>>, 0),
      Commitments(<<Bytes(RowPolys[1])>>, 0) }

\* the cols argument: widths with a domain, and one without
ColsInputs == {0, 2, 3, MaxDomain + 1}

----------------------------------------------------------------------------
(* Calls of verify_multi_proof *)

InitProof ==
    /\ overflow_checks \in BOOLEAN
    /\ mp_pc = "idle"
    /\ mp_args = <<>>
    /\ mp_out = [kind |-> "none"]
    /\ v2_pc = "idle"
    /\ v2_args = <<>>
    /\ v2_out = NoCall

VerifyMultiProof ==
    /\ mp_pc = "idle" /\ v2_pc = "idle" /\ g_pc = "idle"
    /\ \E commitments \in CommitmentInputs, cols \in ColsInputs :
       \E proof \in SeqsUpTo(Triples(cols), MaxTriples) :
        LET out == verify_multi_proof(proof, commitments, cols, overflow_checks)
        IN  /\ mp_args' = [proof |-> proof, commitments |-> commitments, cols |-> cols]
            /\ mp_out' = out
            /\ mp_pc' = IF out.kind = "panic" THEN "panicked" ELSE "returned"
    /\ UNCHANGED <<overflow_checks, lookupVars, cellVars, gridVars, codecVars, justVars>>

----------------------------------------------------------------------------
(* verify_v2 (kate/recovery/src/proof.rs) *)

InvalidData == [kind |-> "InvalidData"]
InvalidPositionInDomain == [kind |-> "InvalidPositionInDomain"]

Position(row, col) == [row |-> row, col |-> col]

\* an 80-byte cell: the proof in content[..48], the value in content[48..]
SingleCell(position, proof_bytes, data) ==
    [position |-> position, content |-> <<proof_bytes, data>>]
CellProof(cell) == cell.content[1]
CellData(cell) == cell.content[2]

\* q * (X - x) + v, for a polynomial q of degree below PolyLen - 1
Unopen(q, x, v) ==
    [i \in 1..PolyLen |->
        FAdd(FSub(IF i = 1 THEN 0 ELSE q[i - 1], FMul(x, q[i])), IF i = 1 THEN v ELSE 0)]

\* a pairing check that rejects the proof of a constant polynomial, whose
\* witness polynomial is zero (the point at infinity)
KzgVerifyNonZeroProof(commitment, point, value, proof) ==
    Ok(proof # ZeroPoly /\ proof[PolyLen] = 0 /\ Unopen(proof, point, value) = commitment)

\* KZGProof::verify of the poly_multiproof crate: the pairing equation
\* e(C - [v], g2) = e(proof, [tau - x]) holds exactly when the committed
\* polynomials satisfy C - v = proof * (X - x)
KzgVerify(commitment, point, value, proof) ==
    Ok(proof[PolyLen] = 0 /\ Unopen(proof, point, value) = commitment)

\* a verifier that reports a failed pairing check as an error
verify_v2_strict(commitment, cell, width) ==
    IF ~commitment.ok \/ ~CellData(cell).ok \/ ~CellProof(cell).ok
    THEN Err(InvalidData)
    ELSE LET domain == domain_points(width)
         IN  IF ~domain.ok THEN Err(InvalidDomain)
             ELSE IF cell.position.col >= Len(domain.val)
                  THEN Err(InvalidPositionInDomain)
             ELSE IF KzgVerify(commitment.v, domain.val[cell.position.col + 1],
                               CellData(cell).v, CellProof(cell).v) = Ok(TRUE)
                  THEN Ok(TRUE)
                  ELSE Err(InvalidData)

verify_v2(commitment, cell, width) ==
    IF ~commitment.ok THEN Err(InvalidData)
    ELSE IF ~CellData(cell).ok THEN Err(InvalidData)
    ELSE LET domain == domain_points(width)
         IN  IF ~domain.ok THEN Err(InvalidDomain)
             ELSE IF cell.position.col >= Len(domain.val)
                  THEN Err(InvalidPositionInDomain)
             ELSE IF ~CellProof(cell).ok THEN Err(InvalidData)
             ELSE LET r == KzgVerify(commitment.v, domain.val[cell.position.col + 1],
                                     CellData(cell).v, CellProof(cell).v)
                  IN  IF r.ok THEN r ELSE Err(InvalidData)

\* the witness polynomial (p - p(x)) / (X - x), by synthetic division
RECURSIVE Quotient(_, _, _)
Quotient(p, x, i) ==
    IF i >= PolyLen THEN 0 ELSE FAdd(p[i + 1], FMul(x, Quotient(p, x, i + 1)))
Witness(p, x) == [i \in 1..PolyLen |-> Quotient(p, x, i)]

\* the 48 proof bytes an honest prover sends for polynomial p at point x
HonestCellProof(p, x) == Bytes(Witness(p, x))

CommitmentBytes == {Bytes(RowPolys[1]), Bytes(RowPolys[2]), BadBytes}
ScalarBytes == {Bytes(v) : v \in {0, 2, 3, 4}} \cup {BadBytes}
CellProofBytes ==
    {HonestCellProof(RowPolys[r], x) : r \in 1..2, x \in {1, 2, 3, 4}} \cup {BadBytes}
CellCols == {0, 1, 3, 4}
WidthInputs == {1, 2, 3, MaxDomain + 1}

VerifyV2 ==
    /\ mp_pc = "idle" /\ v2_pc = "idle" /\ g_pc = "idle"
    /\ \E commitment \in CommitmentBytes, proof \in CellProofBytes,
          data \in ScalarBytes, col \in CellCols, width \in WidthInputs :
        LET cell == SingleCell(Position(0, col), proof, data)
        IN  /\ v2_args' = [commitment |-> commitment, cell |-> cell, width |-> width]
            /\ v2_out' = verify_v2(commitment, cell, width)
    /\ v2_pc' = "returned"
    /\ UNCHANGED <<overflow_checks, lookupVars, multiVars, gridVars, codecVars, justVars>>

\* the deprecated verify: the proof, the value and the commitment are
\* deserialized first; EvaluationDomain::new(cols) is the domain of the next
\* power of two as well
verify(commitment, cell, width) ==
    IF ~CellProof(cell).ok THEN Err(InvalidData)
    ELSE IF ~CellData(cell).ok THEN Err(InvalidData)
    ELSE IF ~commitment.ok THEN Err(InvalidData)
    ELSE LET domain == domain_points(width)
         IN  IF ~domain.ok THEN Err(InvalidDomain)
             ELSE IF cell.position.col >= Len(domain.val)
                  THEN Err(InvalidPositionInDomain)
             ELSE KzgVerify(commitment.v, domain.val[cell.position.col + 1],
                            CellData(cell).v, CellProof(cell).v)

Verify ==
    /\ mp_pc = "idle" /\ v2_pc = "idle" /\ g_pc = "idle"
    /\ \E commitment \in CommitmentBytes, proof \in CellProofBytes,
          data \in ScalarBytes, col \in CellCols, width \in WidthInputs :
        LET cell == SingleCell(Position(0, col), proof, data)
        IN  /\ v2_args' = [commitment |-> commitment, cell |-> cell, width |-> width]
            /\ v2_out' = verify(commitment, cell, width)
    /\ v2_pc' = "verified"
    /\ UNCHANGED <<overflow_checks, lookupVars, multiVars, gridVars, codecVars, justVars>>

----------------------------------------------------------------------------
(* A single byte of an accepted input is flipped and the call repeated.   *)
(* The encodings are canonical: the flipped bytes either do not            *)
(* deserialize or deserialize to a different element.                      *)

\* what a flipped byte can turn the bytes b of an element of `elements` into
FlipBytes(b, elements) == ({BadBytes} \cup {Bytes(v) : v \in elements}) \ {b}

Scalars == Fr
Polys == {RowPolys[1], RowPolys[2], ZeroPoly}
CellOpenings == {Witness(q, x) : q \in Polys, x \in {1, 2}}
BlockOpenings == {[polys |-> <<ZeroPoly>>, pts |-> <<1>>],
                  [polys |-> <<RowPolys[1]>>, pts |-> <<0>>]}

FlipV2 ==
    /\ v2_pc = "returned" /\ v2_out = Ok(TRUE)
    /\ \E field \in {"commitment", "proof", "data"} :
        \E b \in (CASE field = "commitment" -> FlipBytes(v2_args.commitment, Polys)
                   [] field = "proof" -> FlipBytes(CellProof(v2_args.cell), CellOpenings)
                   [] field = "data" -> FlipBytes(CellData(v2_args.cell), Scalars)) :
        LET commitment == IF field = "commitment" THEN b ELSE v2_args.commitment
            cell == SingleCell(v2_args.cell.position,
                               IF field = "proof" THEN b ELSE CellProof(v2_args.cell),
                               IF field = "data" THEN b ELSE CellData(v2_args.cell))
        IN  /\ v2_args' = [commitment |-> commitment, cell |-> cell,
                           width |-> v2_args.width]
            /\ v2_out' = verify_v2(commitment, cell, v2_args.width)
    /\ v2_pc' = "flipped"
    /\ UNCHANGED <<overflow_checks, lookupVars, multiVars, gridVars, codecVars, justVars>>

\* the arguments of verify_multi_proof with one byte flipped: in the
\* commitment chunk j, in the proof of triple i, or in evaluation k of triple i
FlippedMulti(args) ==
    {[args EXCEPT !.commitments.chunks[j] = b] :
        <<j, b>> \in {<<j, b>> \in (1..Len(args.commitments.chunks)) \X
                                    ({BadBytes} \cup {Bytes(v) : v \in Polys}) :
                        b # args.commitments.chunks[j]}}
    \cup UNION {{[args EXCEPT !.proof[i].proof = b] :
                    b \in FlipBytes(args.proof[i].proof, BlockOpenings)} :
                i \in 1..Len(args.proof)}
    \cup UNION {{[args EXCEPT !.proof[i].evals[k] = b] :
                    b \in FlipBytes(args.proof[i].evals[k], Scalars)} :
                <<i, k>> \in {<<i, k>> \in (1..Len(args.proof)) \X (1..5) :
                                k <= Len(args.proof[i].evals)}}

FlipMultiProof ==
    /\ mp_pc = "returned" /\ mp_out.res = Ok(TRUE)
    /\ \E args \in FlippedMulti(mp_args) :
        LET out == verify_multi_proof(args.proof, args.commitments, args.cols,
                                      overflow_checks)
        IN  /\ mp_args' = args
            /\ mp_out' = out
            /\ mp_pc' = IF out.kind = "panic" THEN "flip panicked" ELSE "flipped"
    /\ UNCHANGED <<overflow_checks, lookupVars, cellVars, gridVars, codecVars, justVars>>

----------------------------------------------------------------------------
(* The grid pipeline: EvaluationGrid::from_extrinsics, extend_columns,     *)
(* make_polynomial_grid, the commitment paths and the single-cell proof.   *)

\* most extrinsics handed to from_extrinsics
MaxXts == 2

BlockTooBig == [kind |-> "BlockTooBig"]
DomainSizeInvalid == [kind |-> "DomainSizeInvalid"]

Max(a, b) == IF a >= b THEN a ELSE b

\* the generator of the radix-2 domain of size n
Omega(n) == FPow(Generator, (Modulus - 1) \div n)

\* the sum of the field elements f[1..n]
RECURSIVE FSum(_, _)
FSum(f, n) == IF n = 0 THEN 0 ELSE FAdd(f[n], FSum(f, n - 1))

\* inverse FFT over the domain of size Len(evals): the coefficients of the
\* polynomial with these evaluations
ifft(evals) ==
    LET n == Len(evals)
        w_inv == FInv(Omega(n))
    IN  [j \in 1..PolyLen |->
            IF j > n THEN 0
            ELSE FMul(FInv(n % Modulus),
                      FSum([k \in 1..n |-> FMul(evals[k], FPow(w_inv, (j - 1) * (k - 1)))], n))]

\* FFT: the evaluations of polynomial p over the domain of size n
fft(p, n) == [k \in 1..n |-> Val(p, FPow(Omega(n), k - 1))]

AppExtrinsic(app_id, data) == [app_id |-> app_id, data |-> data]

\* stable sort by app_id
RECURSIVE SortByAppId(_, _)
SortByAppId(xts, id) ==
    IF id > 2 THEN <<>>
    ELSE SelectSeq(xts, LAMBDA x : x.app_id = id) \o SortByAppId(xts, id + 1)

RECURSIVE Flatten(_)
Flatten(ss) == IF ss = <<>> THEN <<>> ELSE Head(ss) \o Flatten(Tail(ss))

Dimensions(rows, cols) == [rows |-> rows, cols |-> cols]

\* the smallest grid holding n scalars: a single row narrower than max_width
\* when they fit, else full-width rows, a power of two of them
get_block_dims(n, min_width, max_width, max_height) ==
    LET height == NextPow2((n + max_width - 1) \div max_width)
    IN  IF height > max_height THEN Err(BlockTooBig)
        ELSE IF n < max_width
             THEN Ok(Dimensions(1, Max(NextPow2(n), min_width)))
        ELSE Ok(Dimensions(height, max_width))

\* the k-th filler scalar derived from the seed
PaddingValue(seed, k) == (seed + 2 * k) % Modulus

EvaluationGrid(l, evals) == [lookup |-> l, evals |-> evals]
dims(grid) == Dimensions(Len(grid.evals), Len(grid.evals[1]))

from_extrinsics(extrinsics, min_width, max_width, max_height, rng_seed) ==
    LET sorted == SortByAppId(extrinsics, 0)
        built_lookup == from_id_and_len_iter(
                      [k \in 1..Len(sorted) |->
                          [id |-> sorted[k].app_id, len |-> Len(sorted[k].data)]])
    IN  IF ~built_lookup.ok THEN built_lookup
        ELSE
        LET d == get_block_dims(len(built_lookup.val), min_width, max_width, max_height)
        IN  IF ~d.ok THEN d
            ELSE
            LET scalars == Flatten([k \in 1..Len(sorted) |-> sorted[k].data])
                cell(k) == IF k <= Len(scalars) THEN scalars[k]
                           ELSE PaddingValue(rng_seed, k - Len(scalars))
            IN  Ok(EvaluationGrid(built_lookup.val,
                    [y \in 1..d.val.rows |->
                        [x \in 1..d.val.cols |-> cell((y - 1) * d.val.cols + x)]]))

\* an extension that evaluates the column polynomial on a shifted domain
extend_column_shifted(col, factor) ==
    LET p == ifft(col)
    IN  [k \in 1..(Len(col) * factor) |->
            Val(p, FMul(Generator, FPow(Omega(Len(col) * factor), k - 1)))]

\* one column extended: its polynomial evaluated over the domain with
\* factor times as many points
extend_column(col, factor) == fft(ifft(col), Len(col) * factor)

extend_columns(grid, factor) ==
    LET d == dims(grid)
        h == d.rows * factor
    IN  IF NextPow2(h) # h \/ h > MaxDomain THEN Err(DomainSizeInvalid)
        ELSE
        LET column(x) == [y \in 1..d.rows |-> grid.evals[y][x]]
            extended == [x \in 1..d.cols |-> extend_column(column(x), factor)]
        IN  Ok(EvaluationGrid(grid.lookup,
                [y \in 1..h |-> [x \in 1..d.cols |-> extended[x][y]]]))

\* the arguments of from_extrinsics
XtData == {<<1>>, <<2, 3>>, <<0, 0>>}
Extrinsics == {AppExtrinsic(id, data) : id \in AppIds, data \in XtData}
GridLimits == {<<1, 2, 2>>, <<2, 4, 2>>, <<1, 2, 1>>}
Seeds == {0, 3}

FromExtrinsics ==
    /\ g_pc = "idle" /\ mp_pc = "idle" /\ v2_pc = "idle"
    /\ \E xts \in SeqsUpTo(Extrinsics, MaxXts), lim \in GridLimits, seed \in Seeds :
        /\ g_in' = [extrinsics |-> xts, min_width |-> lim[1], max_width |-> lim[2],
                    max_height |-> lim[3], seed |-> seed]
        /\ g_grid' = from_extrinsics(xts, lim[1], lim[2], lim[3], seed)
    /\ g_pc' = IF g_grid'.ok THEN "grid" ELSE "failed"
    /\ UNCHANGED <<g_ext, g_commits, g_order, g_par, g_last, lookupVars, proofVars, codecVars, justVars>>

ExtendColumns ==
    /\ g_pc = "grid"
    /\ g_ext' = extend_columns(g_grid.val, 2)
    /\ g_pc' = IF g_ext'.ok THEN "extended" ELSE "failed"
    /\ UNCHANGED <<g_in, g_grid, g_commits, g_order, g_par, g_last, lookupVars, proofVars, codecVars, justVars>>

\* one polynomial per row, by inverse FFT over the row's domain
make_polynomial_grid(grid) == [y \in 1..Len(grid.evals) |-> ifft(grid.evals[y])]

\* the KZG commitment of a polynomial and its 48 bytes; the commitment is
\* binding and is identified with the committed polynomial
commit(p) == p
to_bytes(c) == Bytes(c)

\* PolynomialGrid::commitments: the rows committed one after the other
commitments(polys) == [y \in 1..Len(polys) |-> commit(polys[y])]

\* PolynomialGrid::extended_commitments: the rows committed, then the
\* commitments extended as group elements, coefficient by coefficient
extended_commitments(polys, factor) ==
    LET cs == commitments(polys)
        h == Len(polys) * factor
    IN  IF NextPow2(h) # h \/ h > MaxDomain THEN Err(DomainSizeInvalid)
        ELSE
        LET ext == [i \in 1..PolyLen |->
                        extend_column([k \in 1..Len(cs) |-> cs[k][i]], factor)]
        IN  Ok([y \in 1..h |-> [i \in 1..PolyLen |-> ext[i][y]]])

AllBytes(cs) == [y \in 1..Len(cs) |-> to_bytes(cs[y])]

\* a collection in the order the workers finished
CollectAsFinished(results, order) == [k \in 1..Len(order) |-> results[order[k]]]

\* the parallel builder's collection of its workers' results: in row order
Collect(results, order) == [y \in 1..Len(order) |-> results[y]]

\* the two serial paths
SerialCommitments ==
    /\ g_pc = "extended"
    /\ LET rows == commitments(make_polynomial_grid(g_ext.val))
           ext == extended_commitments(make_polynomial_grid(g_grid.val), 2)
       IN  /\ g_commits' = [rows |-> AllBytes(rows),
                            fft |-> IF ext.ok THEN AllBytes(ext.val) ELSE <<>>]
           /\ g_pc' = IF ext.ok THEN "serial" ELSE "failed"
    /\ UNCHANGED <<g_in, g_grid, g_ext, g_order, g_par, g_last, lookupVars, proofVars, codecVars, justVars>>

\* par_build_commitments, run on the same grid: the worker of row y
\* finishes; the last one to finish lets the builder collect and return
ParCommitRow ==
    /\ g_pc \in {"serial", "committing"}
    /\ \E y \in 1..Len(g_ext.val.evals) :
        /\ \A k \in 1..Len(g_order) : g_order[k] # y
        /\ g_order' = Append(g_order, y)
        /\ IF Len(g_order') = Len(g_ext.val.evals)
           THEN /\ g_par' = AllBytes(Collect(commitments(make_polynomial_grid(g_ext.val)),
                                             g_order'))
                /\ g_pc' = "committed"
           ELSE /\ g_pc' = "committing"
                /\ UNCHANGED g_par
    /\ UNCHANGED <<g_in, g_grid, g_ext, g_commits, g_last, lookupVars, proofVars, codecVars, justVars>>

\* PolynomialGrid::proof: the opening of the row polynomial of the cell at
\* the domain point of the cell's column
proof(polys, width, cell) ==
    LET points == domain_points(width)
    IN  IF ~points.ok THEN points
        ELSE Ok(commit(Witness(polys[cell.row + 1], points.val[cell.col + 1])))

\* once the commitments are there, a cell of the extended grid is proved,
\* packed as a SingleCell with its value, and verified against the
\* commitment of its row
ProveAndVerify ==
    /\ g_pc = "serial"
    /\ \E y \in 1..Len(g_ext.val.evals), x \in 1..Len(g_ext.val.evals[1]) :
        LET polys == make_polynomial_grid(g_ext.val)
            width == dims(g_ext.val).cols
            position == Position(y - 1, x - 1)
            pi == proof(polys, width, position)
            cell == SingleCell(position, to_bytes(pi.val), Bytes(g_ext.val.evals[y][x]))
        IN  g_last' = [op |-> "verify_v2", position |-> position, poly |-> polys[y],
                       proved |-> pi.ok,
                       out |-> IF pi.ok THEN verify_v2(g_commits.rows[y], cell, width)
                               ELSE NoCall]
    /\ g_pc' = "queried"
    /\ UNCHANGED <<g_in, g_grid, g_ext, g_commits, g_order, g_par, lookupVars, proofVars, codecVars, justVars>>

\* the rows of the extended grid that hold cells of the range: the original
\* rows first_row..last_row, each at extension-factor times its index
extended_data_rows(dimensions, cells) ==
    IF cells.end > dimensions.rows * dimensions.cols \/ cells.end <= cells.start
    THEN <<>>
    ELSE LET first_row == cells.start \div dimensions.cols
             last_row == (cells.end - 1) \div dimensions.cols
         IN  [k \in 1..(last_row - first_row + 1) |-> 2 * (first_row + k - 1)]

\* the extended rows holding any portion of the application's data
app_specific_rows(l, dimensions, app_id) ==
    LET range == range_of(l, app_id)
    IN  IF range.some THEN extended_data_rows(dimensions, range.val) ELSE <<>>

\* EvaluationGrid::app_rows: the application's rows of this (extended) grid,
\* each with its row index, located through the original dimensions
app_rows(grid, app_id, orig_dims) ==
    LET range == range_of(grid.lookup, app_id)
        h_mul == dims(grid).rows \div orig_dims.rows
    IN  IF ~range.some THEN None
        ELSE LET first_row == range.val.start \div orig_dims.cols
                 last_row == (range.val.end - 1) \div orig_dims.cols
             IN  Some([k \in 1..(last_row - first_row + 1) |->
                        [index |-> (first_row + k - 1) * h_mul,
                         row |-> grid.evals[(first_row + k - 1) * h_mul + 1]]])

BadCommitmentsData == [kind |-> "BadCommitmentsData"]

Contains(s, v) == \E k \in 1..Len(s) : s[k] = v

\* an equality check that takes an absent row for one that needs no check
verify_equality_skipping_absent(row_commitments, rows, l, dimensions, app_id) ==
    LET required == app_specific_rows(l, dimensions, app_id)
    IN  IF Len(row_commitments) # 2 * dimensions.rows THEN Err(BadCommitmentsData)
        ELSE IF Len(rows) # 2 * dimensions.rows THEN Ok([verified |-> <<>>, missing |-> required])
        ELSE
        LET equal(i) == rows[i + 1].some =>
                            to_bytes(commit(ifft(rows[i + 1].val))) = row_commitments[i + 1]
            verified == SelectSeq(required, equal)
        IN  Ok([verified |-> verified,
                missing |-> SelectSeq(required, LAMBDA i : ~Contains(verified, i))])

\* verify_equality: the application's rows that are present and whose
\* commitment equals the one published for the row are verified; the
\* application's other rows are missing
verify_equality(row_commitments, rows, l, dimensions, app_id) ==
    LET required == app_specific_rows(l, dimensions, app_id)
    IN  IF Len(row_commitments) # 2 * dimensions.rows THEN Err(BadCommitmentsData)
        ELSE IF Len(rows) # 2 * dimensions.rows THEN Ok([verified |-> <<>>, missing |-> required])
        ELSE
        LET equal(i) == /\ rows[i + 1].some
                        /\ to_bytes(commit(ifft(rows[i + 1].val))) = row_commitments[i + 1]
            verified == SelectSeq(required, equal)
        IN  Ok([verified |-> verified,
                missing |-> SelectSeq(required, LAMBDA i : ~Contains(verified, i))])

\* how a row is withheld: its entry is left absent, or removed from the list
WithholdModes == {"absent", "removed"}

\* the rows of one application are fetched with app_rows, placed in a list
\* with one entry per extended row, one of them possibly withheld, and
\* checked against the commitments
VerifyEquality ==
    /\ g_pc = "serial"
    /\ \E app_id \in AppIds :
        LET orig_dims == dims(g_grid.val)
            fetched == app_rows(g_ext.val, app_id, orig_dims)
        IN  /\ fetched.some
            /\ \E withheld \in {None} \cup {Some(fetched.val[k].index) : k \in 1..Len(fetched.val)},
                  mode \in WithholdModes :
                LET g_rows == dims(g_ext.val).rows
                    placed == [i \in 1..g_rows |->
                                IF \E k \in 1..Len(fetched.val) : fetched.val[k].index = i - 1
                                THEN Some(g_ext.val.evals[i]) ELSE None]
                    supplied ==
                        IF ~withheld.some THEN placed
                        ELSE IF mode = "absent"
                             THEN [placed EXCEPT ![withheld.val + 1] = None]
                        ELSE [i \in 1..(g_rows - 1) |->
                                IF i <= withheld.val THEN placed[i] ELSE placed[i + 1]]
                IN  /\ withheld.some \/ mode = "absent"
                    /\ g_last' = [op |-> "verify_equality", app_id |-> app_id,
                                   withheld |-> withheld, mode |-> mode,
                                   fetched |-> fetched.val,
                                   out |-> verify_equality(g_commits.rows, supplied,
                                                           g_ext.val.lookup, orig_dims, app_id)]
    /\ g_pc' = "queried"
    /\ UNCHANGED <<g_in, g_grid, g_ext, g_commits, g_order, g_par, lookupVars, proofVars, codecVars, justVars>>

InitGrid ==
    /\ g_pc = "idle"
    /\ g_in = <<>>
    /\ g_grid = NoCall
    /\ g_ext = NoCall
    /\ g_commits = <<>>
    /\ g_order = <<>>
    /\ g_par = <<>>
    /\ g_last = [op |-> "none"]

----------------------------------------------------------------------------
(* The byte codecs of GCellBlock and MultiProofCell                        *)
(* (kate/recovery/src/data.rs)                                             *)

ByteMod == 2^ByteBits
\* the values of an integer of n bytes
IntMod(n) == ByteMod^n
WireU32Max == IntMod(4) - 1
U64Max == IntMod(8) - 1

GCELL_BLOCK_SIZE == 16
PROOF_BYTE_LEN == 48
SCALAR_COUNT_LEN == 4
SCALAR_BYTE_LEN == 32
LIMBS_PER_SCALAR == 4
BYTES_PER_LIMB == 8

\* u32::to_le_bytes and u32::from_le_bytes
u32_to_le_bytes(v) == [i \in 1..4 |-> (v \div ByteMod^(i - 1)) % ByteMod]
u32_from_le_bytes(b) == b[1] + ByteMod * (b[2] + ByteMod * (b[3] + ByteMod * b[4]))

\* u64::to_be_bytes and u64::from_be_bytes
u64_to_be_bytes(v) == [i \in 1..8 |-> (v \div ByteMod^(8 - i)) % ByteMod]
RECURSIVE BeValue(_, _)
BeValue(b, n) == IF n = 0 THEN 0 ELSE b[n] + ByteMod * BeValue(b, n - 1)
u64_from_be_bytes(b) == BeValue(b, 8)

\* `len as u32`: a truncating cast
AsU32(n) == n % IntMod(4)

\* slice.get(a..b)
Get(bytes, a, b) == IF b <= Len(bytes) THEN Some(SubSeq(bytes, a + 1, b)) ELSE None
\* slice.split_at(n)
SplitAt(bytes, n) == <<SubSeq(bytes, 1, n), SubSeq(bytes, n + 1, Len(bytes))>>

\* an encoder that writes start_y before start_x
GCellBlock_to_bytes_swapped(b) ==
    u32_to_le_bytes(b.start_y) \o u32_to_le_bytes(b.start_x)
        \o u32_to_le_bytes(b.end_x) \o u32_to_le_bytes(b.end_y)

GCellBlock_to_bytes(b) ==
    u32_to_le_bytes(b.start_x) \o u32_to_le_bytes(b.start_y)
        \o u32_to_le_bytes(b.end_x) \o u32_to_le_bytes(b.end_y)

GCellBlock_from_bytes(bytes) ==
    IF Len(bytes) # GCELL_BLOCK_SIZE THEN Err("GCellBlock must be exactly 16 bytes")
    ELSE
    LET start_x == Get(bytes, 0, 4)
        start_y == Get(bytes, 4, 8)
        end_x == Get(bytes, 8, 12)
        end_y == Get(bytes, 12, 16)
    IN  IF start_x.some /\ start_y.some /\ end_x.some /\ end_y.some
        THEN Ok(GCellBlock(u32_from_le_bytes(start_x.val), u32_from_le_bytes(start_y.val),
                           u32_from_le_bytes(end_x.val), u32_from_le_bytes(end_y.val)))
        ELSE Err("Failed to convert bytes to GCellBlock")

MultiProofCell(position, scalars, proof_bytes, gcell_block) ==
    [position |-> position, scalars |-> scalars, proof |-> proof_bytes,
     gcell_block |-> gcell_block]

\* MultiProofCell::data: the limbs of every scalar, each limb big-endian
data(m) ==
    [i \in 1..(Len(m.scalars) * LIMBS_PER_SCALAR * BYTES_PER_LIMB) |->
        LET scalar == m.scalars[((i - 1) \div SCALAR_BYTE_LEN) + 1]
            limb == scalar[(((i - 1) % SCALAR_BYTE_LEN) \div BYTES_PER_LIMB) + 1]
        IN  u64_to_be_bytes(limb)[((i - 1) % BYTES_PER_LIMB) + 1]]

MultiProofCell_to_bytes(m) ==
    m.proof \o GCellBlock_to_bytes(m.gcell_block)
        \o u32_to_le_bytes(AsU32(Len(m.scalars))) \o data(m)

\* Cell::to_bytes of Cell::MultiProofCell(m)
Cell_to_bytes(m) == MultiProofCell_to_bytes(m)

\* what a call did: it returned, or it panicked
Return(r) == [kind |-> "return", res |-> r]
Panic(cause) == [kind |-> "panic", cause |-> cause]

\* a usize of usize_bytes bytes: its multiplication, which panics in a build
\* with overflow checks and wraps in one without, and isize::MAX
UsizeMul(a, b, usize_bytes, checks) ==
    IF a * b < IntMod(usize_bytes) THEN Some(a * b)
    ELSE IF checks THEN None
    ELSE Some((a * b) % IntMod(usize_bytes))
IsizeMax(usize_bytes) == (IntMod(usize_bytes) \div 2) - 1

\* the scalars of a data section whose length is a multiple of 32
ParseScalars(rest) ==
    LET chunks == chunks_exact(rest, SCALAR_BYTE_LEN)
    IN  [k \in 1..Len(chunks) |->
            LET limbs == chunks_exact(chunks[k], BYTES_PER_LIMB)
            IN  [i \in 1..LIMBS_PER_SCALAR |-> u64_from_be_bytes(limbs[i])]]

MultiProofCell_from_bytes(position, bytes, usize_bytes, checks) ==
    LET min_required_len == PROOF_BYTE_LEN + GCELL_BLOCK_SIZE + SCALAR_COUNT_LEN
    IN  IF Len(bytes) < min_required_len
        THEN Return(Err("Input too short to be a valid MultiProofCell"))
        ELSE
        LET s1 == SplitAt(bytes, PROOF_BYTE_LEN)
            s2 == SplitAt(s1[2], GCELL_BLOCK_SIZE)
            gcell_block == GCellBlock_from_bytes(s2[1])
            s3 == SplitAt(s2[2], SCALAR_COUNT_LEN)
            scalar_count == u32_from_le_bytes(s3[1])
            rest == s3[2]
            expected_scalar_len == UsizeMul(scalar_count, SCALAR_BYTE_LEN, usize_bytes, checks)
        IN  IF ~gcell_block.ok THEN Return(gcell_block)
            ELSE IF ~expected_scalar_len.some THEN Panic("attempt to multiply with overflow")
            ELSE IF Len(rest) # expected_scalar_len.val
                 THEN Return(Err("Scalar data length mismatch"))
            \* Vec::with_capacity(scalar_count) of 32-byte elements
            ELSE IF scalar_count * SCALAR_BYTE_LEN > IsizeMax(usize_bytes)
                 THEN Panic("capacity overflow")
            ELSE Return(Ok(MultiProofCell(position, ParseScalars(rest), s1[1],
                                          gcell_block.val)))

\* the structures encoded
WireU32s == {0, 1, ByteMod, WireU32Max}
GCellBlocks ==
    {GCellBlock(a, b, c, d) : a \in WireU32s, b \in WireU32s, c \in WireU32s, d \in WireU32s}
ProofBytes == {[i \in 1..PROOF_BYTE_LEN |-> 1], [i \in 1..PROOF_BYTE_LEN |-> i % ByteMod]}
ScalarLimbs == {<<1, 2, 3, 4>>, <<0, ByteMod, U64Max, U64Max - 1>>}
\* none, one, two, and one more than a u32 counts
ScalarLists ==
    SeqsUpTo(ScalarLimbs, 2) \cup {[k \in 1..(WireU32Max + 2) |-> <<1, 2, 3, 4>>]}
CellBlocks == {GCellBlock(0, 0, 10, 10), GCellBlock(2, 3, 6, 9), GCellBlock(WireU32Max, 0, 1, ByteMod)}
Positions == {Position(10, 5), Position(20, 7)}
MultiProofCells ==
    {MultiProofCell(position, scalars, proof_bytes, block) :
        position \in Positions, scalars \in ScalarLists,
        proof_bytes \in ProofBytes, block \in CellBlocks}

\* bytes of a usize: a 32-bit and a 64-bit target
PointerWidths == {4, 8}

EncodeBlock ==
    /\ c_pc = "idle" /\ pc = "start" /\ mp_pc = "idle" /\ v2_pc = "idle" /\ g_pc = "idle"
    /\ \E b \in GCellBlocks :
        /\ c_value' = [kind |-> "GCellBlock", val |-> b]
        /\ c_bytes' = GCellBlock_to_bytes(b)
    /\ c_pc' = "encoded"
    /\ UNCHANGED <<c_usize, c_out, lookupVars, proofVars, gridVars, justVars>>

EncodeCell ==
    /\ c_pc = "idle" /\ pc = "start" /\ mp_pc = "idle" /\ v2_pc = "idle" /\ g_pc = "idle"
    /\ \E m \in MultiProofCells, via \in {"MultiProofCell", "Cell"} :
        /\ c_value' = [kind |-> "MultiProofCell", val |-> m, via |-> via]
        /\ c_bytes' = IF via = "Cell" THEN Cell_to_bytes(m) ELSE MultiProofCell_to_bytes(m)
    /\ c_pc' = "encoded"
    /\ UNCHANGED <<c_usize, c_out, lookupVars, proofVars, gridVars, justVars>>

\* the scalar count field of an encoded cell replaced
WithCount(bytes, n) ==
    [i \in 1..Len(bytes) |->
        IF i > PROOF_BYTE_LEN + GCELL_BLOCK_SIZE
           /\ i <= PROOF_BYTE_LEN + GCELL_BLOCK_SIZE + SCALAR_COUNT_LEN
        THEN u32_to_le_bytes(n)[i - PROOF_BYTE_LEN - GCELL_BLOCK_SIZE]
        ELSE bytes[i]]

\* scalar counts written into a cell: small ones, the largest, and the ones
\* whose product with 32 is a multiple of, or 32 more than, the values of a
\* four-byte usize
WireCounts ==
    {0, 1, 2, 3, WireU32Max, IntMod(4) \div SCALAR_BYTE_LEN, (IntMod(4) \div SCALAR_BYTE_LEN) + 1}

\* bytes that are not an encoding: cut short, grown, or declaring another
\* scalar count
Malformed(bytes) ==
    {SubSeq(bytes, 1, n) : n \in {0, 15, 16, 47, 64, 67, 68, 99, Len(bytes) - 1} \cap 0..Len(bytes)}
        \cup {bytes \o <<0>>, bytes \o [i \in 1..SCALAR_BYTE_LEN |-> 1]}
        \cup IF Len(bytes) >= PROOF_BYTE_LEN + GCELL_BLOCK_SIZE + SCALAR_COUNT_LEN
             THEN {WithCount(bytes, n) : n \in WireCounts}
             ELSE {}

Tamper ==
    /\ c_pc = "encoded"
    /\ Len(c_bytes) <= 4 * SCALAR_BYTE_LEN + PROOF_BYTE_LEN + GCELL_BLOCK_SIZE + SCALAR_COUNT_LEN
    /\ \E bytes \in Malformed(c_bytes) :
        /\ bytes # c_bytes
        /\ c_bytes' = bytes
    /\ c_pc' = "malformed"
    /\ UNCHANGED <<c_value, c_usize, c_out, lookupVars, proofVars, gridVars, justVars>>

DecodeBlock ==
    /\ c_pc \in {"encoded", "malformed"} /\ c_value.kind = "GCellBlock"
    /\ c_out' = Return(GCellBlock_from_bytes(c_bytes))
    /\ c_pc' = IF c_pc = "encoded" THEN "decoded" ELSE "rejected"
    /\ UNCHANGED <<c_value, c_bytes, c_usize, lookupVars, proofVars, gridVars, justVars>>

\* the bytes are decoded on a target in whose memory they fit
DecodeCell ==
    /\ c_pc \in {"encoded", "malformed"} /\ c_value.kind = "MultiProofCell"
    /\ \E usize_bytes \in PointerWidths :
        /\ Len(c_bytes) <= IsizeMax(usize_bytes)
        /\ c_usize' = usize_bytes
        /\ c_out' = MultiProofCell_from_bytes(c_value.val.position, c_bytes, usize_bytes,
                                              overflow_checks)
    /\ c_pc' = IF c_pc = "encoded" THEN "decoded" ELSE "rejected"
    /\ UNCHANGED <<c_value, c_bytes, lookupVars, proofVars, gridVars, justVars>>

\* <[u8; N]>::try_from(slice).expect(..): panics unless the slice has n bytes
ExpectArray(slice, n) ==
    IF Len(slice) = n THEN Return(slice) ELSE Panic("content is 80 bytes")

\* an accessor that reads the value from the start of the content
SingleCell_data_leading(content) == ExpectArray(SubSeq(content, 1, 32), 32)

\* SingleCell::data: content[48..]
SingleCell_data(content) == ExpectArray(SubSeq(content, 49, Len(content)), 32)

\* SingleCell::proof: content[..48]
SingleCell_proof(content) == ExpectArray(SubSeq(content, 1, 48), 48)

\* contents of a SingleCell: [u8; 80]
Contents ==
    {[i \in 1..80 |-> (i * k) % ByteMod] : k \in 0..3}
        \cup {[i \in 1..80 |-> IF i <= 48 THEN a ELSE b] : a \in 0..(ByteMod - 1), b \in 0..(ByteMod - 1)}
        \cup {[i \in 1..80 |-> IF i = k THEN 1 ELSE 0] : k \in {1, 32, 33, 48, 49, 80}}

\* both accessors of one cell are called
SplitCell ==
    /\ c_pc = "idle" /\ pc = "start" /\ mp_pc = "idle" /\ v2_pc = "idle" /\ g_pc = "idle"
    /\ \E content \in Contents :
        /\ c_value' = [kind |-> "SingleCell", val |-> content]
        /\ c_out' = [kind |-> "split", proof |-> SingleCell_proof(content),
                      data |-> SingleCell_data(content)]
    /\ c_pc' = "split"
    /\ UNCHANGED <<c_bytes, c_usize, lookupVars, proofVars, gridVars, justVars>>

\* the content of a cell with the given data: 48 proof bytes, then the data
content(cell_data) == [i \in 1..48 |-> 0] \o cell_data

\* Dimensions::row_byte_size: 32 bytes for each column
row_byte_size(dimensions) == dimensions.cols * 32

\* (a.position.row, a.position.col).cmp(..) is Less or Equal
PositionLe(a, b) ==
    \/ a.position.row < b.position.row
    \/ a.position.row = b.position.row /\ a.position.col <= b.position.col

\* slice::sort_by: a stable sort by (row, col)
RECURSIVE InsertCell(_, _)
InsertCell(sorted, cell) ==
    IF sorted = <<>> THEN <<cell>>
    ELSE IF PositionLe(sorted[Len(sorted)], cell) THEN Append(sorted, cell)
    ELSE Append(InsertCell(SubSeq(sorted, 1, Len(sorted) - 1), cell), sorted[Len(sorted)])
RECURSIVE SortCells(_)
SortCells(cells) ==
    IF cells = <<>> THEN <<>>
    ELSE InsertCell(SortCells(SubSeq(cells, 1, Len(cells) - 1)), cells[Len(cells)])

\* the BTreeMap after the loop: for each row index met, in ascending order,
\* the data of its cells in the order of the sorted list
RECURSIVE MergeLoop(_, _)
MergeLoop(sorted_cells, map) ==
    IF sorted_cells = <<>> THEN map
    ELSE
    LET cell == Head(sorted_cells)
        cell_data == SingleCell_data(cell.content).res
        last_row == IF map = <<>> THEN -1 ELSE map[Len(map)].row
    IN  MergeLoop(Tail(sorted_cells),
            IF last_row = cell.position.row
            THEN [map EXCEPT ![Len(map)].bytes = @ \o cell_data]
            ELSE Append(map, [row |-> cell.position.row, bytes |-> cell_data]))

rows(dimensions, cells) ==
    LET merged == MergeLoop(SortCells(cells), <<>>)
    IN  SelectSeq(merged, LAMBDA e : Len(e.bytes) = row_byte_size(dimensions))

\* cells of a grid of two columns: one for each position of rows 0 and 1, a
\* second cell with other data at position (0, 0), and a cell outside the
\* columns
CellData32(v) == [i \in 1..32 |-> v]
RowCells ==
    {[position |-> Position(y, x), content |-> content(CellData32(2 * y + x))] :
        y \in 0..1, x \in 0..1}
        \cup {[position |-> Position(0, 0), content |-> content(CellData32(3))],
              [position |-> Position(0, 2), content |-> content(CellData32(1))]}

MergeRows ==
    /\ c_pc = "idle" /\ pc = "start" /\ mp_pc = "idle" /\ v2_pc = "idle" /\ g_pc = "idle"
    /\ \E cells \in SeqsUpTo(RowCells, MaxCells) :
        /\ c_value' = [kind |-> "rows", val |-> cells, dimensions |-> Dimensions(1, 2)]
        /\ c_out' = Return(rows(Dimensions(1, 2), cells))
    /\ c_pc' = "merged"
    /\ UNCHANGED <<c_bytes, c_usize, lookupVars, proofVars, gridVars, justVars>>

\* constants::kate::DATA_CHUNK_SIZE: the data bytes of a 32-byte chunk
DATA_CHUNK_SIZE == 31

\* u32::saturating_add
saturating_add(a, b) == Min(a + b, U32Max)

\* u32 `+` and `*`: a panic in a build with overflow checks, a wrapped
\* value in a build without
U32Add(a, b, checks) ==
    IF a + b <= U32Max THEN Some(a + b) ELSE IF checks THEN None ELSE Some((a + b) % U32Mod)
U32Mul(a, b, checks) ==
    IF a * b <= U32Max THEN Some(a * b) ELSE IF checks THEN None ELSE Some((a * b) % U32Mod)

padded_len_of_pad_iec_9797_1(n) ==
    LET len_plus_one == saturating_add(n, 1)
        offset == (DATA_CHUNK_SIZE - (len_plus_one % DATA_CHUNK_SIZE)) % DATA_CHUNK_SIZE
    IN  saturating_add(len_plus_one, offset)

padded_len(n, chunk_size, checks) ==
    LET iec_9797_1_len == padded_len_of_pad_iec_9797_1(n)
        diff_per_chunk == chunk_size - DATA_CHUNK_SIZE
        pad_to_chunk_extra ==
            IF diff_per_chunk # 0
            THEN U32Mul(iec_9797_1_len \div DATA_CHUNK_SIZE, diff_per_chunk, checks)
            ELSE Some(0)
    IN  IF ~pad_to_chunk_extra.some THEN Panic("attempt to multiply with overflow")
        ELSE LET sum == U32Add(iec_9797_1_len, pad_to_chunk_extra.val, checks)
             IN  IF ~sum.some THEN Panic("attempt to add with overflow")
                 ELSE Return(sum.val)

\* payload lengths: around the first chunks, in the middle, and up to u32::MAX
PayloadLens ==
    (0..70) \cup {U32Max \div 4, U32Max \div 2} \cup ((U32Max - 70)..U32Max)
ChunkSizes == {DATA_CHUNK_SIZE, 32, 64}

PaddedLen ==
    /\ c_pc = "idle" /\ pc = "start" /\ mp_pc = "idle" /\ v2_pc = "idle" /\ g_pc = "idle"
    /\ \E n \in PayloadLens, chunk_size \in ChunkSizes :
        /\ c_value' = [kind |-> "padded_len", len |-> n, chunk_size |-> chunk_size]
        /\ c_out' = padded_len(n, chunk_size, overflow_checks)
    /\ c_pc' = "padded"
    /\ UNCHANGED <<c_bytes, c_usize, lookupVars, proofVars, gridVars, justVars>>

----------------------------------------------------------------------------
(* AppUncheckedExtrinsic codec (core/src/asdr.rs)                          *)
(* The bytes here are octets. A byte string is written as runs of equal    *)
(* octets, so that a call of u32::MAX bytes is one run; u32 is U32Bits     *)
(* wide, which the four-byte mode of a compact integer holds.              *)

EXTRINSIC_FORMAT_VERSION == 4

\* vec![b; n]
Repeat(b, n) == IF n = 0 THEN <<>> ELSE <<[byte |-> b, count |-> n]>>
Octets(s) == [i \in 1..Len(s) |-> [byte |-> s[i], count |-> 1]]

RECURSIVE RunLen(_)
RunLen(rs) == IF rs = <<>> THEN 0 ELSE Head(rs).count + RunLen(Tail(rs))

\* the n bytes from offset from
RECURSIVE RunSlice(_, _, _)
RunSlice(rs, from, n) ==
    IF n = 0 \/ rs = <<>> THEN <<>>
    ELSE IF from >= Head(rs).count THEN RunSlice(Tail(rs), from - Head(rs).count, n)
    ELSE LET take == Min(n, Head(rs).count - from)
         IN  <<[byte |-> Head(rs).byte, count |-> take]>> \o RunSlice(Tail(rs), 0, n - take)

\* the same bytes with adjacent runs of one octet joined
RECURSIVE Joined(_)
Joined(rs) ==
    IF Len(rs) < 2 THEN rs
    ELSE IF rs[1].byte = rs[2].byte
    THEN Joined(<<[byte |-> rs[1].byte, count |-> rs[1].count + rs[2].count]>>
                    \o SubSeq(rs, 3, Len(rs)))
    ELSE <<rs[1]>> \o Joined(Tail(rs))

ByteAt(rs, off) == RunSlice(rs, off, 1)[1].byte

\* what a decoder read and where the input stands after it
Read(v, pos) == [ok |-> TRUE, val |-> v, pos |-> pos]

\* `let x = r?; F(x)`: the error of r, or F of what r read; r is evaluated
\* once
AndThen(r, F(_)) == CHOOSE out \in {IF x.ok THEN F(x) ELSE x : x \in {r}} : TRUE

\* Compact<u32>::encode
Compact_encode(n) ==
    IF n < 64 THEN <<n * 4>>
    ELSE IF n < 2^14 THEN <<(n * 4 + 1) % 256, (n * 4 + 1) \div 256>>
    ELSE LET v == n * 4 + 2
         IN  <<v % 256, (v \div 256) % 256, (v \div 65536) % 256, v \div 2^24>>

\* Compact<u32>::decode; the big-integer mode never holds a canonical u32
Compact_decode(bytes, pos) ==
    IF pos >= RunLen(bytes) THEN Err("Not enough data to fill buffer")
    ELSE LET b0 == ByteAt(bytes, pos)
             mode == b0 % 4
         IN  IF mode = 0 THEN Read(b0 \div 4, pos + 1)
             ELSE IF mode = 1
             THEN IF pos + 2 > RunLen(bytes) THEN Err("Not enough data to fill buffer")
                  ELSE LET x == (b0 \div 4) + 64 * ByteAt(bytes, pos + 1)
                       IN  IF x > 63 /\ x <= 2^14 - 1 THEN Read(x, pos + 2)
                           ELSE Err("out of range decoding Compact<u32>")
             ELSE IF mode = 2
             THEN IF pos + 4 > RunLen(bytes) THEN Err("Not enough data to fill buffer")
                  ELSE LET x == (b0 \div 4) + 64 * ByteAt(bytes, pos + 1)
                                    + 16384 * ByteAt(bytes, pos + 2)
                                    + 4194304 * ByteAt(bytes, pos + 3)
                       IN  IF x > 2^14 - 1 /\ x <= U32Max THEN Read(x, pos + 4)
                           ELSE Err("out of range decoding Compact<u32>")
             ELSE Err("out of range decoding Compact<u32>")

\* Vec<u8>: its compact length, then its bytes
Vec_encode(v) == Octets(Compact_encode(RunLen(v))) \o v
Vec_decode(bytes, pos) ==
    AndThen(Compact_decode(bytes, pos), LAMBDA length :
        IF length.pos + length.val > RunLen(bytes) THEN Err("Not enough data to fill buffer")
        ELSE Read(Joined(RunSlice(bytes, length.pos, length.val)), length.pos + length.val))

\* u64: eight little-endian bytes; a value beyond the integers of the model
\* is kept as its digits
U64_encode(v) ==
    Octets(<<v % 256, (v \div 256) % 256, (v \div 65536) % 256, v \div 2^24, 0, 0, 0, 0>>)
U64_decode(bytes, pos) ==
    IF pos + 8 > RunLen(bytes) THEN Err("Not enough data to fill buffer")
    ELSE LET b == [i \in 1..8 |-> ByteAt(bytes, pos + i - 1)]
         IN  IF b[4] < 128 /\ \A i \in 5..8 : b[i] = 0
             THEN Read(b[1] + 256 * b[2] + 65536 * b[3] + 2^24 * b[4], pos + 8)
             ELSE Read([digits |-> b], pos + 8)

\* SignaturePayload<u64, TestSignature, TestExtra>: (Address, Signature, Extra),
\* TestSignature(u64, Vec<u8>), and the unit struct TestExtra of no bytes
SignaturePayload(address, who, msg) ==
    [address |-> address, signature |-> [who |-> who, msg |-> msg], extra |-> "TestExtra"]
SignaturePayload_encode(s) ==
    U64_encode(s.address) \o U64_encode(s.signature.who) \o Vec_encode(s.signature.msg)
SignaturePayload_decode(bytes, pos) ==
    AndThen(U64_decode(bytes, pos), LAMBDA address :
    AndThen(U64_decode(bytes, address.pos), LAMBDA who :
    AndThen(Vec_decode(bytes, who.pos), LAMBDA msg :
        Read(SignaturePayload(address.val, who.val, msg.val), msg.pos))))

AppUncheckedExtrinsic(signature, function) ==
    [signature |-> signature, function |-> function]

\* AppUncheckedExtrinsic::decode_no_vec_prefix
decode_no_vec_prefix(bytes, pos) ==
    IF pos >= RunLen(bytes) THEN Err("Not enough data to fill buffer")
    ELSE LET byte == ByteAt(bytes, pos)
             is_signed == byte \div 128 # 0
             version == byte % 128
         IN  IF version # EXTRINSIC_FORMAT_VERSION THEN Err("Invalid transaction version")
             ELSE AndThen(IF is_signed THEN SignaturePayload_decode(bytes, pos + 1)
                          ELSE Read(None, pos + 1), LAMBDA signature :
                  AndThen(Vec_decode(bytes, signature.pos), LAMBDA function :
                      Read(AppUncheckedExtrinsic(
                               IF is_signed THEN Some(signature.val) ELSE None,
                               function.val),
                           function.pos)))

\* Input::remaining_len: a slice knows it, a reader of a stream does not
remaining_len(bytes, pos, reader) == IF reader THEN None ELSE Some(RunLen(bytes) - pos)

\* <AppUncheckedExtrinsic as Decode>::decode
AppUncheckedExtrinsic_decode(bytes, reader) ==
    AndThen(Compact_decode(bytes, 0), LAMBDA expected_length :
    AndThen(decode_no_vec_prefix(bytes, expected_length.pos), LAMBDA extrinsic :
        LET before_length == remaining_len(bytes, expected_length.pos, reader)
            after_length == remaining_len(bytes, extrinsic.pos, reader)
        IN  IF after_length.some /\ before_length.some
               /\ Max(before_length.val - after_length.val, 0) # expected_length.val
            THEN Err("Invalid length prefix")
            ELSE Ok(extrinsic.val)))

\* the version byte and what follows it, before the length prefix
ExtrinsicBody(x) ==
    (IF x.signature.some
     THEN Octets(<<EXTRINSIC_FORMAT_VERSION + 128>>) \o SignaturePayload_encode(x.signature.val)
     ELSE Octets(<<EXTRINSIC_FORMAT_VERSION % 128>>))
        \o Vec_encode(x.function)

\* <AppUncheckedExtrinsic as Encode>::encode: tmp.len() as u32 is the prefix
AppUncheckedExtrinsic_encode(x) ==
    LET tmp == ExtrinsicBody(x)
        compact_len == RunLen(tmp) % U32Mod
    IN  Octets(Compact_encode(compact_len)) \o tmp

\* calls: empty, short, of each mode of the compact length, and the longest
Functions ==
    {Repeat(0, 0), Repeat(9, 1), Repeat(0, 70), Repeat(0, 2^14),
     Repeat(0, U32Max - 5), Repeat(0, U32Max)}
Signatures ==
    {None, Some(SignaturePayload(0, 0, <<>>)), Some(SignaturePayload(300, 300, Repeat(1, 32)))}

EncodeExtrinsic ==
    /\ c_pc = "idle" /\ pc = "start" /\ mp_pc = "idle" /\ v2_pc = "idle" /\ g_pc = "idle"
    /\ \E signature \in Signatures, function \in Functions :
        LET x == AppUncheckedExtrinsic(signature, function)
        IN  /\ c_value' = [kind |-> "AppUncheckedExtrinsic", val |-> x,
                           tamper |-> "none", reader |-> FALSE]
            /\ c_bytes' = AppUncheckedExtrinsic_encode(x)
    /\ c_pc' = "xt_encoded"
    /\ UNCHANGED <<c_usize, c_out, lookupVars, proofVars, gridVars, justVars>>

\* the length prefix or the version byte of an encoding replaced
TamperExtrinsic ==
    /\ c_pc = "xt_encoded" /\ c_value.tamper = "none"
    /\ LET prefix == Compact_decode(c_bytes, 0)
           rest == RunSlice(c_bytes, prefix.pos, RunLen(c_bytes) - prefix.pos)
       IN  \/ \E n \in {0, prefix.val + 1, prefix.val + 10, 2^14 + prefix.val} :
                /\ n # prefix.val /\ n <= U32Max
                /\ c_bytes' = Octets(Compact_encode(n)) \o rest
                /\ c_value' = [c_value EXCEPT !.tamper = "prefix"]
           \/ \E v \in {0, 3, 5, 131, 133} :
                /\ c_bytes' = Octets(Compact_encode(prefix.val)) \o Octets(<<v>>)
                                \o RunSlice(rest, 1, RunLen(rest) - 1)
                /\ c_value' = [c_value EXCEPT !.tamper = "version"]
    /\ UNCHANGED <<c_pc, c_usize, c_out, lookupVars, proofVars, gridVars, justVars>>

DecodeExtrinsic ==
    /\ c_pc = "xt_encoded"
    /\ \E reader \in BOOLEAN :
        /\ c_value' = [c_value EXCEPT !.reader = reader]
        /\ c_out' = Return(AppUncheckedExtrinsic_decode(c_bytes, reader))
    /\ c_pc' = "xt_decoded"
    /\ UNCHANGED <<c_bytes, c_usize, lookupVars, proofVars, gridVars, justVars>>

----------------------------------------------------------------------------
(* DataProof conversion (primitives/avail/src/data_proof.rs)               *)

\* <[u8; 32]>::try_from(slice)
H256_try_from(slice) == IF Len(slice) = 32 THEN Some(slice) ELSE None

\* the index of the first proof item that is not 32 bytes, 0-based
RECURSIVE FirstInvalidProof(_, _)
FirstInvalidProof(items, idx) ==
    IF idx >= Len(items) THEN None
    ELSE IF ~H256_try_from(items[idx + 1]).some THEN Some(idx)
    ELSE FirstInvalidProof(items, idx + 1)

\* u32::try_from(usize)
u32_try_from(n) == IF n <= U32Max THEN Some(n) ELSE None

MerkleProof(root, proof_items, number_of_leaves, leaf_index, leaf) ==
    [root |-> root, proof |-> proof_items, number_of_leaves |-> number_of_leaves,
     leaf_index |-> leaf_index, leaf |-> leaf]

\* a conversion that admits the index number_of_leaves
DataProof_try_from_inclusive(merkle_proof) ==
    IF ~H256_try_from(merkle_proof.root).some THEN Err([kind |-> "InvalidRoot"])
    ELSE IF ~H256_try_from(merkle_proof.leaf).some THEN Err([kind |-> "InvalidLeaf"])
    ELSE IF FirstInvalidProof(merkle_proof.proof, 0).some
    THEN Err([kind |-> "InvalidProof", idx |-> FirstInvalidProof(merkle_proof.proof, 0).val])
    ELSE IF ~u32_try_from(merkle_proof.number_of_leaves).some
    THEN Err([kind |-> "OverflowedNumberOfLeaves"])
    ELSE IF merkle_proof.number_of_leaves = 0 THEN Err([kind |-> "InvalidNumberOfLeaves"])
    ELSE IF ~u32_try_from(merkle_proof.leaf_index).some
    THEN Err([kind |-> "OverflowedLeafIndex"])
    ELSE IF ~(merkle_proof.leaf_index <= merkle_proof.number_of_leaves)
    THEN Err([kind |-> "InvalidLeafIndex"])
    ELSE Ok(merkle_proof)

\* DataProof::try_from(&MerkleProof)
DataProof_try_from(merkle_proof) ==
    LET root == H256_try_from(merkle_proof.root)
        leaf == H256_try_from(merkle_proof.leaf)
        invalid == FirstInvalidProof(merkle_proof.proof, 0)
        number_of_leaves == u32_try_from(merkle_proof.number_of_leaves)
        leaf_index == u32_try_from(merkle_proof.leaf_index)
    IN  IF ~root.some THEN Err([kind |-> "InvalidRoot"])
        ELSE IF ~leaf.some THEN Err([kind |-> "InvalidLeaf"])
        ELSE IF invalid.some THEN Err([kind |-> "InvalidProof", idx |-> invalid.val])
        ELSE IF ~number_of_leaves.some THEN Err([kind |-> "OverflowedNumberOfLeaves"])
        ELSE IF number_of_leaves.val = 0 THEN Err([kind |-> "InvalidNumberOfLeaves"])
        ELSE IF ~leaf_index.some THEN Err([kind |-> "OverflowedLeafIndex"])
        ELSE IF ~(leaf_index.val < number_of_leaves.val) THEN Err([kind |-> "InvalidLeafIndex"])
        ELSE Ok([proof |-> [i \in 1..Len(merkle_proof.proof) |->
                                H256_try_from(merkle_proof.proof[i]).val],
                 root |-> root.val,
                 leaf |-> leaf.val,
                 number_of_leaves |-> number_of_leaves.val,
                 leaf_index |-> leaf_index.val])

\* DataProof::to_beefy_merkle_proof
to_beefy_merkle_proof(self) ==
    MerkleProof(self.root, self.proof, self.number_of_leaves, self.leaf_index, self.leaf)

\* hashes of 32 bytes and byte strings that are not
Hashes == {[i \in 1..32 |-> 6], [i \in 1..32 |-> i]}
NotHashes == {<<>>, [i \in 1..31 |-> 6], [i \in 1..33 |-> 6]}
ProofItems ==
    {<<>>} \cup {<<a>> : a \in Hashes \cup NotHashes}
        \cup {<<a, b>> : a \in {[i \in 1..32 |-> 6], <<>>}, b \in {[i \in 1..32 |-> i], <<>>}}
\* a usize: small, the largest u32, and one more
Usizes == {0, 1, 6, 7, U32Max, U32Max + 1}

TryFromMerkleProof ==
    /\ c_pc = "idle" /\ pc = "start" /\ mp_pc = "idle" /\ v2_pc = "idle" /\ g_pc = "idle"
    /\ \E root \in Hashes \cup {<<>>}, leaf \in Hashes \cup {[i \in 1..33 |-> 6]},
          items \in ProofItems, number_of_leaves \in Usizes, leaf_index \in Usizes :
        LET merkle_proof == MerkleProof(root, items, number_of_leaves, leaf_index, leaf)
        IN  /\ c_value' = [kind |-> "MerkleProof", val |-> merkle_proof]
            /\ c_out' = Return(DataProof_try_from(merkle_proof))
    /\ c_pc' = "converted"
    /\ UNCHANGED <<c_bytes, c_usize, lookupVars, proofVars, gridVars, justVars>>

\* the DataProof converted back; c_bytes holds the MerkleProof made of it
ToBeefyMerkleProof ==
    /\ c_pc = "converted" /\ c_out.res.ok
    /\ c_bytes' = to_beefy_merkle_proof(c_out.res.val)
    /\ c_pc' = "restored"
    /\ UNCHANGED <<c_value, c_usize, c_out, lookupVars, proofVars, gridVars, justVars>>

InitCodec ==
    /\ c_pc = "idle"
    /\ c_value = <<>>
    /\ c_bytes = <<>>
    /\ c_usize = 0
    /\ c_out = Return(NoCall)

----------------------------------------------------------------------------
(* Justifications (core/src/from_substrate/justifications.rs)              *)

\* (ConsensusEngineId, EncodedJustification)
Justification(engine_id, encoded) == <<engine_id, encoded>>

\* Justifications::get: the first entry of the engine
RECURSIVE FindEngine(_, _, _)
FindEngine(list, engine_id, i) ==
    IF i > Len(list) THEN None
    ELSE IF list[i][1] = engine_id THEN Some(list[i][2])
    ELSE FindEngine(list, engine_id, i + 1)
get(list, engine_id) == FindEngine(list, engine_id, 1)

\* an append that does not look for the engine
append_unchecked(list, justification) ==
    [out |-> TRUE, list |-> Append(list, justification)]

\* Justifications::append: the value returned and the collection left
append(list, justification) ==
    IF get(list, justification[1]).some THEN [out |-> FALSE, list |-> list]
    ELSE [out |-> TRUE, list |-> Append(list, justification)]

\* Justifications::remove
remove(list, engine_id) == SelectSeq(list, LAMBDA j : j[1] # engine_id)

EngineIds == {"FRNK", "BABE", "aura"}
Encoded == {<<1>>, <<2, 3>>}

\* Justifications::from(justification)
FromJustification ==
    /\ j_log = <<>>
    /\ pc = "start" /\ mp_pc = "idle" /\ v2_pc = "idle" /\ g_pc = "idle" /\ c_pc = "idle"
    /\ \E id \in EngineIds, e \in Encoded :
        /\ j_list' = <<Justification(id, e)>>
        /\ j_log' = <<[op |-> "from", arg |-> Justification(id, e), out |-> TRUE,
                        before |-> <<>>]>>
    /\ UNCHANGED <<lookupVars, proofVars, gridVars, codecVars>>

AppendJustification ==
    /\ j_log # <<>> /\ Len(j_log) <= MaxOps
    /\ \E id \in EngineIds, e \in Encoded :
        LET r == append(j_list, Justification(id, e))
        IN  /\ j_list' = r.list
            /\ j_log' = Append(j_log, [op |-> "append", arg |-> Justification(id, e),
                                        out |-> r.out, before |-> j_list])
    /\ UNCHANGED <<lookupVars, proofVars, gridVars, codecVars>>

RemoveJustification ==
    /\ j_log # <<>> /\ Len(j_log) <= MaxOps
    /\ \E id \in EngineIds :
        /\ j_list' = remove(j_list, id)
        /\ j_log' = Append(j_log, [op |-> "remove", arg |-> id, out |-> TRUE,
                                    before |-> j_list])
    /\ UNCHANGED <<lookupVars, proofVars, gridVars, codecVars>>

InitJust ==
    /\ j_list = <<>>
    /\ j_log = <<>>

----------------------------------------------------------------------------
(* Specifications *)

Init == InitLookup /\ InitProof /\ InitGrid /\ InitCodec /\ InitJust

Next ==
    \/ Build
    \/ EmptyHeader
    \/ FaultyHeader
    \/ Receive
    \/ Compact
    \/ Expand
    \/ AppTxs
    \/ Transactions
    \/ ProjectedRangeOf
    \/ ProjectedRanges

Spec == Init /\ [][Next]_vars

NextProof ==
    \/ VerifyMultiProof
    \/ VerifyV2
    \/ Verify
    \/ FlipV2
    \/ FlipMultiProof

SpecProof == Init /\ [][NextProof]_vars

NextGrid ==
    \/ FromExtrinsics
    \/ ExtendColumns
    \/ SerialCommitments
    \/ ParCommitRow
    \/ ProveAndVerify
    \/ VerifyEquality

SpecGrid == Init /\ [][NextGrid]_vars

NextCodec ==
    \/ EncodeBlock
    \/ EncodeCell
    \/ Tamper
    \/ DecodeBlock
    \/ DecodeCell
    \/ SplitCell
    \/ MergeRows
    \/ PaddedLen
    \/ EncodeExtrinsic
    \/ TamperExtrinsic
    \/ DecodeExtrinsic
    \/ TryFromMerkleProof
    \/ ToBeefyMerkleProof

SpecCodec == Init /\ [][NextCodec]_vars

NextJust ==
    \/ FromJustification
    \/ AppendJustification
    \/ RemoveJustification

SpecJust == Init /\ [][NextJust]_vars

----------------------------------------------------------------------------
(* Vocabulary of the properties: what an input list is and what layout it  *)
(* asks for, stated without the code's running state.                      *)

Representable(n) == n >= 0 /\ n <= U32Max

\* sum of the lengths of it[1..n]
RECURSIVE PrefixSum(_, _)
PrefixSum(it, n) == IF n = 0 THEN 0 ELSE it[n].len + PrefixSum(it, n - 1)

\* ids non-decreasing, every length in 1..u32::MAX, total within u32
WellFormed(it) ==
    /\ \A i \in 1..Len(it) : it[i].len > 0 /\ Representable(it[i].len)
    /\ \A i \in 2..Len(it) : it[i].id >= it[i - 1].id
    /\ \A i \in 1..Len(it) : PrefixSum(it, i) <= U32Max

\* positions at which an app id appears for the first time
FirstPositions(it) == {i \in 1..Len(it) : \A j \in 1..(i - 1) : it[j].id # it[i].id}

\* the position of the k-th distinct app id
KthFirst(it, k) ==
    CHOOSE i \in FirstPositions(it) :
        Cardinality({j \in FirstPositions(it) : j <= i}) = k

\* positions of the transactions of app id `id`
TxsOf(it, id) == {i \in 1..Len(it) : it[i].id = id}

RECURSIVE SumOver(_, _)
SumOver(it, S) ==
    IF S = {} THEN 0
    ELSE LET i == CHOOSE x \in S : TRUE IN it[i].len + SumOver(it, S \ {i})

\* the call under study is from_id_and_len_iter and it returned Ok
BuiltOk == origin = "built" /\ built.ok

----------------------------------------------------------------------------
(* C1 *)

\* C1: for every well-formed (AppId, length) list, also one with no AppId(0)
\* entry, from_id_and_len_iter, then from_data_lookup, then try_from yields
\* Ok of a DataLookup equal to the one built (same index, same rows_per_tx).
C1_RoundTrip ==
    (origin = "built" /\ WellFormed(iter) /\ trips = 1 /\ last.op = "try_from")
        => (built.ok /\ last.out = Ok(built.val))

----------------------------------------------------------------------------
(* C2 *)

\* C2: for every accepted input the index has one entry per distinct app id
\* in order of first appearance, the first range starts at 0, every later
\* range starts where the previous one ends, every range is as long as the
\* sum of the lengths submitted for its app id, and len() is the sum of all
\* lengths; for every length in 1..=u32::MAX, lengths >= 65536 included.
C2_Layout ==
    (BuiltOk /\ last.op = "from_id_and_len_iter") =>
        LET index == built.val.index
            n == Cardinality(FirstPositions(iter))
        IN  /\ Len(index) = n
            /\ \A k \in 1..n : index[k].id = iter[KthFirst(iter, k)].id
            /\ n > 0 => index[1].range.start = 0
            /\ \A k \in 2..n : index[k].range.start = index[k - 1].range.end
            /\ \A k \in 1..n :
                index[k].range.end - index[k].range.start
                    = SumOver(iter, TxsOf(iter, index[k].id))
            /\ len(built.val) = PrefixSum(iter, Len(iter))

----------------------------------------------------------------------------
(* C3 *)

\* the DataLookup invariant: app ids strictly increasing, start <= end in
\* every range, every range starting where the previous one ends
LookupInvariant(l) ==
    /\ \A k \in 2..Len(l.index) : l.index[k].id > l.index[k - 1].id
    /\ \A k \in 1..Len(l.index) : l.index[k].range.start <= l.index[k].range.end
    /\ \A k \in 2..Len(l.index) : l.index[k].range.start = l.index[k - 1].range.end

\* items sorted by app id and start offsets not decreasing
CompactSorted(c) ==
    \A k \in 2..Len(c.index) :
        /\ c.index[k].app_id >= c.index[k - 1].app_id
        /\ c.index[k].start >= c.index[k - 1].start

\* C3: every DataLookup that try_from returns as Ok and that is not the error
\* sentinel satisfies the DataLookup invariant and has len() = compact.size;
\* a compact input whose items are not sorted by app id, or whose start
\* offsets decrease, is rejected with an error.
C3_DecodeInvariant ==
    last.op = "try_from" =>
        /\ (last.out.ok /\ ~is_error(last.out.val)) =>
                (LookupInvariant(last.out.val) /\ len(last.out.val) = last.arg.size)
        /\ (~compact_is_error(last.arg) /\ ~CompactSorted(last.arg)) => ~last.out.ok

----------------------------------------------------------------------------
(* C4 - C6: the three rejections of from_id_and_len_iter *)

\* element i is the first to go below its predecessor's app id
Descends(it, i) == i > 1 /\ it[i].id < it[i - 1].id

\* element i cannot be laid out after it[1..i-1]
Fails(it, i) ==
    \/ ~Representable(it[i].len)
    \/ it[i].len = 0
    \/ Descends(it, i)
    \/ PrefixSum(it, i) > U32Max

\* no element before i fails
CleanBefore(it, i) == \A j \in 1..(i - 1) : ~Fails(it, j)

\* C4: from_id_and_len_iter returns Err(DataNotSorted) for every input in
\* which an element's app id is below its predecessor's, provided every length
\* up to and including that element is > 0 and fits in u32 and the running
\* offset has not overflowed; equal consecutive app ids are accepted (the
\* error is returned for a descent only).
C4_SortRejection ==
    last.op = "from_id_and_len_iter" =>
        /\ (\E i \in 1..Len(iter) :
                /\ Descends(iter, i)
                /\ \A j \in 1..i : iter[j].len > 0 /\ Representable(iter[j].len)
                /\ PrefixSum(iter, i - 1) <= U32Max)
            => built = Err(DataNotSorted)
        /\ built = Err(DataNotSorted) => \E i \in 1..Len(iter) : Descends(iter, i)

\* C4 witness: a list whose first two app ids are equal and whose third is
\* below them was rejected as unsorted
C4_Witness ==
    /\ last.op = "from_id_and_len_iter"
    /\ Len(iter) = 3
    /\ iter[1].id = iter[2].id
    /\ iter[3].id < iter[2].id
    /\ built = Err(DataNotSorted)

\* some length is not representable as u32, or the running sum passes u32::MAX
Overflowing(it) ==
    \E i \in 1..Len(it) : ~Representable(it[i].len) \/ PrefixSum(it, i) > U32Max

\* C5 as stated: Err(OffsetOverflows) whenever a length is not representable
\* as u32 or the running sum of lengths would exceed u32::MAX; and no Ok
\* result has len() different from the true sum of the input lengths.
C5_OverflowAlways ==
    last.op = "from_id_and_len_iter" =>
        /\ Overflowing(iter) => built = Err(OffsetOverflows)
        /\ built.ok => len(built.val) = PrefixSum(iter, Len(iter))

\* C5 amended: an input with a length not representable as u32, or whose
\* running sum would exceed u32::MAX, is never accepted; the error is
\* OffsetOverflows when no earlier element fails a check and the element is
\* either not representable or non-empty, in order and overflowing the sum;
\* OffsetOverflows is returned for no other input; the offset never wraps: an
\* Ok result has len() equal to the true sum of the lengths.
C5_Overflow ==
    last.op = "from_id_and_len_iter" =>
        /\ Overflowing(iter) => ~built.ok
        /\ (\E i \in 1..Len(iter) :
                /\ CleanBefore(iter, i)
                /\ \/ ~Representable(iter[i].len)
                   \/ /\ iter[i].len > 0
                      /\ ~Descends(iter, i)
                      /\ PrefixSum(iter, i) > U32Max)
            => built = Err(OffsetOverflows)
        /\ built = Err(OffsetOverflows) => Overflowing(iter)
        /\ built.ok =>
            /\ len(built.val) = PrefixSum(iter, Len(iter))
            /\ PrefixSum(iter, Len(iter)) <= U32Max

\* C5 witness: every length fits in u32 and the second addition overflowed
C5_Witness ==
    /\ last.op = "from_id_and_len_iter"
    /\ Len(iter) = 2
    /\ \A i \in 1..2 : Representable(iter[i].len) /\ iter[i].len > 0
    /\ iter[1].len + iter[2].len > U32Max
    /\ built = Err(OffsetOverflows)

\* C6: Err(DataEmptyOn(id)) when an element (id, 0) is met and no earlier
\* element failed; no lookup returned as Ok holds a transaction of length 0
\* (no zero row count, no empty range); the empty input yields the empty
\* lookup: no index entries, len() = 0, is_error() false.
C6_EmptyPayload ==
    last.op = "from_id_and_len_iter" =>
        /\ \A i \in 1..Len(iter) :
                (iter[i].len = 0 /\ CleanBefore(iter, i))
                    => built = Err(DataEmptyOn(iter[i].id))
        /\ built.ok =>
            /\ \A k \in 1..Len(built.val.rows_per_tx) : built.val.rows_per_tx[k] > 0
            /\ \A k \in 1..Len(built.val.index) :
                    built.val.index[k].range.start < built.val.index[k].range.end
        /\ iter = <<>> =>
            /\ built.ok
            /\ built.val.index = <<>>
            /\ len(built.val) = 0
            /\ ~is_error(built.val)

----------------------------------------------------------------------------
(* C7, C8: the compact form *)

\* is_error of a DataLookup, spelled out: entries present and the last ends at 0
ErrorLookup(l) == Len(l.index) > 0 /\ l.index[Len(l.index)].range.end = 0

\* is_error of a CompactDataLookup, spelled out
ErrorCompact(c) == c.size = U32Max \/ (c.size = 0 /\ Len(c.index) > 0)

\* C7: CompactDataLookup::is_error() is true exactly when size = u32::MAX or
\* (size = 0 and the index is non-empty); try_from maps every such compact
\* value to a DataLookup with is_error(); from_data_lookup maps every
\* DataLookup with is_error() to size 0 and the single item (AppId(0), 0);
\* so the error state survives every compact/expand round trip, the lookup
\* of a faulty header is an error lookup and the empty lookup is not.
C7_ErrorSentinel ==
    /\ compact.some => (compact_is_error(compact.val) <=> ErrorCompact(compact.val))
    /\ (last.op = "try_from" /\ ErrorCompact(last.arg))
            => (last.out.ok /\ ErrorLookup(last.out.val) /\ is_error(last.out.val))
    /\ (last.op = "from_data_lookup" /\ ErrorLookup(last.arg))
            => (last.out.size = 0 /\ last.out.index = <<DataLookupItem(0, 0)>>)
    /\ origin = "faulty_header" =>
            /\ pc # "failed"
            /\ lookup.some /\ ErrorLookup(lookup.val) /\ is_error(lookup.val)
            /\ compact.some => ErrorCompact(compact.val)
    /\ origin = "empty_header" =>
            /\ pc # "failed"
            /\ lookup.some /\ ~ErrorLookup(lookup.val) /\ ~is_error(lookup.val)
            /\ compact.some => ~ErrorCompact(compact.val)

\* C7 witness: the lookup of a faulty header after MaxTrips round trips
C7_Witness ==
    /\ origin = "faulty_header"
    /\ trips = MaxTrips
    /\ last.op = "try_from"
    /\ pc = "lookup"
    /\ is_error(lookup.val)

\* C8: for every non-error DataLookup L, from_data_lookup(L) has size = L.len()
\* and an index that holds, in index order, exactly one item (app_id,
\* range.start) for every entry of L whose app id is not 0, and no item with
\* app id 0.
C8_CompactContent ==
    (last.op = "from_data_lookup" /\ ~ErrorLookup(last.arg)) =>
        LET L == last.arg
            kept == SelectSeq(L.index, LAMBDA e : e.id # 0)
        IN  /\ last.out.size = len(L)
            /\ Len(last.out.index) = Len(kept)
            /\ \A k \in 1..Len(kept) :
                    /\ last.out.index[k].app_id = kept[k].id
                    /\ last.out.index[k].start = kept[k].range.start
            /\ \A k \in 1..Len(last.out.index) : last.out.index[k].app_id # 0

\* C8 witness: a lookup with an AppId(0) entry followed by two others was
\* compacted
C8_Witness ==
    /\ last.op = "from_data_lookup"
    /\ ~ErrorLookup(last.arg)
    /\ Len(last.arg.index) = 3
    /\ last.arg.index[1].id = 0
    /\ Len(last.out.index) = 2

----------------------------------------------------------------------------
(* C9: the transaction split *)

\* the k-th transaction of app id `id` in the list
KthTxOf(it, id, k) ==
    CHOOSE i \in TxsOf(it, id) : Cardinality({j \in TxsOf(it, id) : j <= i}) = k

\* C9: for a DataLookup built from transactions of lengths l_1..l_n,
\* app_txs(id) is Some list with one entry per transaction of that app id, in
\* submission order, the k-th entry being the l_k consecutive indices the
\* transaction occupies; the entries concatenated are range_of(id);
\* app_txs(id) is None exactly when the lookup has no range for id;
\* transactions() lists the same splits for every app id in index order.
C9_TransactionSplit ==
    (BuiltOk /\ trips = 0 /\ pc = "queried") =>
        /\ last.op = "app_txs" =>
            LET id == last.arg
                n == Cardinality(TxsOf(iter, id))
                range == range_of(built.val, id)
            IN  /\ last.out.some <=> range.some
                /\ last.out.some <=> n > 0
                /\ last.out.some =>
                    /\ Len(last.out.val) = n
                    /\ \A k \in 1..Len(last.out.val) :
                        LET i == KthTxOf(iter, id, k)
                            e == last.out.val[k]
                        IN  /\ Len(e) = iter[i].len
                            /\ \A j \in 1..Len(e) : e[j] = PrefixSum(iter, i - 1) + j - 1
                    /\ SumSeq([k \in 1..Len(last.out.val) |-> Len(last.out.val[k])])
                            = range.val.end - range.val.start
                    /\ Len(last.out.val) > 0 =>
                            (Len(last.out.val[1]) > 0
                                => last.out.val[1][1] = range.val.start)
        /\ last.op = "transactions" =>
            LET index == built.val.index
            IN  /\ last.out.some <=> index # <<>>
                /\ last.out.some =>
                    /\ Len(last.out.val) = Len(index)
                    /\ \A k \in 1..Len(index) :
                        /\ last.out.val[k].id = index[k].id
                        /\ Some(last.out.val[k].txs) = app_txs(built.val, index[k].id)


----------------------------------------------------------------------------
(* verify_multi_proof: vocabulary *)

\* the indices a half-open interval [a, b) denotes, in increasing order
Interval(a, b) == [k \in 1..(IF b > a THEN b - a ELSE 0) |-> a + k - 1]

\* the members of the index list `idx` that the list `s` has, 0-based
Existing(idx, s) == SubSeq(idx, 1, Cardinality({k \in 1..Len(idx) : idx[k] < Len(s)}))

\* does triple t pass the batched verification against the row commitments
\* with indices in [start_y, end_y) and the domain points with indices in
\* [start_x, end_x)
PassesBlock(t, row_commitments, cols) ==
    LET b == t.block
        ys == Existing(Interval(b.start_y, b.end_y), row_commitments.chunks)
        xs == Interval(b.start_x, b.end_x)
        points == domain_points(cols)
    IN  /\ points.ok
        /\ xs # <<>>
        /\ \A k \in 1..Len(xs) : xs[k] < Len(points.val)
        /\ AllOk(t.evals) /\ t.proof.ok
        /\ \A k \in 1..Len(ys) : row_commitments.chunks[ys[k] + 1].ok
        /\ PmpVerify([k \in 1..Len(ys) |-> row_commitments.chunks[ys[k] + 1].v],
                     [k \in 1..Len(xs) |-> points.val[xs[k] + 1]],
                     chunks_exact([k \in 1..Len(t.evals) |-> t.evals[k].v], Len(xs)),
                     t.proof.v) = Ok(TRUE)

PassesAt(i) == PassesBlock(mp_args.proof[i], mp_args.commitments, mp_args.cols)

WellFormedBlock(b) == b.start_x <= b.end_x /\ b.start_y <= b.end_y

\* C10: verify_multi_proof returns Ok(true) only if every supplied triple
\* passes the batched verification against the row commitments with indices
\* in [start_y, end_y) and the domain points with indices in [start_x, end_x);
\* the triples are taken in list order and Ok(false) is returned at the first
\* triple whose verification fails.
C10_MultiProof ==
    (mp_pc = "returned" /\ mp_out.res.ok) =>
        IF mp_out.res.val
        THEN /\ mp_out.at = Len(mp_args.proof)
             /\ \A i \in 1..Len(mp_args.proof) : PassesAt(i)
        ELSE /\ mp_out.at \in 1..Len(mp_args.proof)
             /\ ~PassesAt(mp_out.at)
             /\ \A j \in 1..(mp_out.at - 1) : PassesAt(j)


\* Where C10's statement does hold: a list whose blocks all have
\* start <= end on both axes ...
MultiProofWellFormedBlocks ==
    (mp_pc # "idle" /\ \A i \in 1..Len(mp_args.proof) :
                            WellFormedBlock(mp_args.proof[i].block))
        => C10_MultiProof

\* ... and a build with integer overflow checks, in which
\* end_y - start_y panics when end_y < start_y
MultiProofCheckedBuild == overflow_checks => C10_MultiProof


----------------------------------------------------------------------------
(* verify_v2: vocabulary *)

V2Returned == v2_pc = "returned"
V2Commitment == v2_args.commitment
V2Data == CellData(v2_args.cell)
V2Proof == CellProof(v2_args.cell)
V2Col == v2_args.cell.position.col
V2HasDomain == NextPow2(v2_args.width) <= MaxDomain
V2InDomain == V2HasDomain /\ V2Col < NextPow2(v2_args.width)
\* the domain point of the cell's column
V2Point == FPow(Generator, V2Col * ((Modulus - 1) \div NextPow2(v2_args.width)))
\* the call's (deserialized) value is the committed polynomial's value at the
\* cell's point and its proof is the witness of that opening
V2PairingHolds ==
    /\ V2Data.v = Val(V2Commitment.v, V2Point)
    /\ V2Proof.v = Witness(V2Commitment.v, V2Point)

\* C11 as stated: InvalidData whenever the commitment, the value or the
\* proof does not deserialize, InvalidDomain whenever the width has no
\* domain, Ok(false) for a failed pairing check.
C11_OutcomeTypingAlways ==
    V2Returned =>
        /\ (~V2Commitment.ok \/ ~V2Data.ok \/ ~V2Proof.ok) => v2_out = Err(InvalidData)
        /\ ~V2HasDomain => v2_out = Err(InvalidDomain)
        /\ (V2Commitment.ok /\ V2Data.ok /\ V2Proof.ok /\ V2InDomain /\ ~V2PairingHolds)
                => v2_out = Ok(FALSE)

\* C11: verify_v2 reports the first check that fails, in the order
\* commitment, value, domain, position, proof: Err(InvalidData) when the
\* commitment or the value does not deserialize; Err(InvalidDomain) when they
\* do and the width has no domain; Err(InvalidData) when they do, the position
\* is in the domain and the proof does not deserialize; Ok(false), not an
\* Err, when all deserialize, the position is in the domain and the pairing
\* equation does not hold.
C11_OutcomeTyping ==
    V2Returned =>
        /\ (~V2Commitment.ok \/ ~V2Data.ok) => v2_out = Err(InvalidData)
        /\ (V2Commitment.ok /\ V2Data.ok /\ ~V2HasDomain) => v2_out = Err(InvalidDomain)
        /\ (V2Commitment.ok /\ V2Data.ok /\ V2InDomain /\ ~V2Proof.ok)
                => v2_out = Err(InvalidData)
        /\ (V2Commitment.ok /\ V2Data.ok /\ V2Proof.ok /\ V2InDomain /\ ~V2PairingHolds)
                => v2_out = Ok(FALSE)

\* a call whose inputs all deserialize, in the domain, failing the pairing check
C11_Witness ==
    /\ V2Returned /\ V2Commitment.ok /\ V2Data.ok /\ V2Proof.ok /\ V2InDomain
    /\ ~V2PairingHolds /\ v2_out = Ok(FALSE)


----------------------------------------------------------------------------
(* Flipped bytes *)

\* C12: from inputs for which verify_v2 returned Ok(true), a flipped byte of
\* the commitment, the proof or the value makes verify_v2 return Ok(false);
\* likewise verify_multi_proof, after a flipped byte of its commitments,
\* proof or evaluations, returns Ok(false): no panic, no Ok(true), no Err.
C12_NegativeVerification ==
    /\ v2_pc = "flipped" => v2_out = Ok(FALSE)
    /\ mp_pc = "flip panicked" => FALSE
    /\ mp_pc = "flipped" => (mp_out.kind = "return" /\ mp_out.res = Ok(FALSE))

\* What does hold after a flipped byte: verify_v2 never returns Ok(true) ...
FlippedCellNeverAccepted == v2_pc = "flipped" => v2_out \in {Ok(FALSE), Err(InvalidData)}

\* ... verify_multi_proof does not panic ...
FlippedMultiNeverPanics == mp_pc # "flip panicked"

\* ... but it may still return Ok(true)
FlippedMultiNeverAccepted == mp_pc = "flipped" => mp_out.res # Ok(TRUE)


----------------------------------------------------------------------------
(* Panics *)

\* C13: verify_multi_proof returns Ok or Err and never panics, whatever
\* blocks, evaluations and commitments it is given.
C13_NoPanic == mp_pc # "panicked"

\* every panic comes from a block: an empty column range (chunks_exact(0)),
\* a column range that is no slice of the domain points, or, with overflow
\* checks, end_y < start_y
PanicCauses ==
    mp_pc = "panicked" =>
        LET b == mp_args.proof[mp_out.at].block
        IN  \/ b.end_x = b.start_x
            \/ b.end_x < b.start_x
            \/ b.end_x > NextPow2(mp_args.cols)
            \/ overflow_checks /\ b.end_y < b.start_y

\* commitments shorter than end_y * 48 bytes do not panic
ShortCommitmentsReturn ==
    (mp_pc # "idle" /\ Len(mp_args.proof) = 1
     /\ WellFormedBlock(mp_args.proof[1].block)
     /\ mp_args.proof[1].block.end_x > mp_args.proof[1].block.start_x
     /\ mp_args.proof[1].block.end_x <= NextPow2(mp_args.cols))
        => mp_pc # "panicked"


----------------------------------------------------------------------------
(* The grid pipeline: properties *)

\* C15: extend_columns(2) of a grid built by from_extrinsics keeps the
\* columns, doubles the rows, and its rows 0, 2, 4, ... are the rows of the
\* grid before the extension, cell for cell.
C15_ExtensionRecoverable ==
    g_pc = "extended" =>
        LET g == g_grid.val.evals
            e == g_ext.val.evals
        IN  /\ Len(e) = 2 * Len(g)
            /\ \A y \in 1..Len(e) : Len(e[y]) = Len(g[1])
            /\ \A y \in 1..Len(g) : e[2 * (y - 1) + 1] = g[y]

\* a grid of two rows holding two applications has been extended
C15_Witness ==
    /\ g_pc = "extended" /\ Len(g_grid.val.evals) = 2 /\ Len(g_ext.val.evals) = 4
    /\ Len(g_grid.val.lookup.index) = 2
    /\ g_ext.val.evals[2] # g_ext.val.evals[1]


C16_ProofCompleteness ==
    g_last.op = "verify_v2" => (g_last.proved /\ g_last.out = Ok(TRUE))

\* a cell outside column 0 of a row whose polynomial is not constant
C16_Witness ==
    /\ g_last.op = "verify_v2" /\ g_last.out = Ok(TRUE)
    /\ g_last.position.col > 0 /\ g_last.poly[2] # 0

\* rows of zeros and rows of equal non-zero values are proved and verified
ZeroRowVerified ==
    g_last.op = "verify_v2" /\ g_last.poly = ZeroPoly /\ g_last.out = Ok(TRUE)
ConstantRowVerified ==
    /\ g_last.op = "verify_v2" /\ g_last.out = Ok(TRUE)
    /\ g_last.poly[1] # 0 /\ \A i \in 2..PolyLen : g_last.poly[i] = 0


\* C17: checking the rows app_rows returns for an application against the
\* commitments of the extended rows reports no missing row when every row
\* of the application is supplied, reports a missing row when one of them is
\* withheld, and never reports the withheld row as verified.
C17_AvailabilityCheck ==
    g_last.op = "verify_equality" =>
        /\ g_last.out.ok
        /\ g_last.fetched # <<>>
        /\ ~g_last.withheld.some => g_last.out.val.missing = <<>>
        /\ g_last.withheld.some =>
            /\ g_last.out.val.missing # <<>>
            /\ ~Contains(g_last.out.val.verified, g_last.withheld.val)

\* a grid of two applications, one of them on two rows: one of its rows is
\* left absent, the other is verified
C17_Witness ==
    /\ g_last.op = "verify_equality" /\ g_last.withheld.some
    /\ Len(g_ext.val.lookup.index) >= 2
    /\ Len(g_last.fetched) = 2
    /\ g_last.out.ok /\ Len(g_last.out.val.verified) = 1
    /\ g_last.out.val.missing = <<g_last.withheld.val>>

\* every row of an application supplied: all of them are verified
AllRowsVerified ==
    /\ g_last.op = "verify_equality" /\ ~g_last.withheld.some
    /\ Len(g_ext.val.lookup.index) >= 2
    /\ g_last.out.ok /\ Len(g_last.out.val.verified) = 2

\* a row removed from the list: nothing is verified
RemovedRowMissing ==
    /\ g_last.op = "verify_equality" /\ g_last.withheld.some /\ g_last.mode = "removed"
    /\ g_last.out.ok /\ g_last.out.val.verified = <<>> /\ g_last.out.val.missing # <<>>

----------------------------------------------------------------------------
(* The byte codecs: properties *)

\* the i-th byte (from 0) of the little-endian and of the big-endian form of
\* v in n bytes
LeByte(v, i) == (v \div ByteMod^i) % ByteMod
BeByte(v, n, i) == (v \div ByteMod^(n - 1 - i)) % ByteMod

\* bytes[at..at + 4] is the little-endian form of v
HoldsLeU32(bytes, at, v) == \A i \in 0..3 : bytes[at + i + 1] = LeByte(v, i)

\* the layout of an encoded GCellBlock, at offset `at` of the bytes
BlockLayout(bytes, at, b) ==
    /\ HoldsLeU32(bytes, at, b.start_x)
    /\ HoldsLeU32(bytes, at + 4, b.start_y)
    /\ HoldsLeU32(bytes, at + 8, b.end_x)
    /\ HoldsLeU32(bytes, at + 12, b.end_y)

\* the layout of an encoded MultiProofCell
CellLayout(bytes, m) ==
    /\ Len(bytes) = 68 + 32 * Len(m.scalars)
    /\ \A i \in 1..48 : bytes[i] = m.proof[i]
    /\ BlockLayout(bytes, 48, m.gcell_block)
    /\ HoldsLeU32(bytes, 64, Len(m.scalars))
    /\ \A k \in 1..Len(m.scalars) : \A l \in 0..3 : \A i \in 0..7 :
            bytes[68 + 32 * (k - 1) + 8 * l + i + 1] = BeByte(m.scalars[k][l + 1], 8, i)

EncodedCell == c_pc \in {"encoded", "decoded"} /\ c_value.kind = "MultiProofCell"
EncodedBlock == c_pc \in {"encoded", "decoded"} /\ c_value.kind = "GCellBlock"

\* C18: the bytes of a MultiProofCell are its proof, its GCellBlock, its
\* scalar count as a little-endian u32 and the big-endian limbs of its
\* scalars, and from_bytes with the cell's position gives the cell back,
\* also when the bytes come from Cell::to_bytes.
C18_MultiProofCellCodec ==
    /\ EncodedCell => CellLayout(c_bytes, c_value.val)
    /\ (c_pc = "decoded" /\ c_value.kind = "MultiProofCell") =>
            c_out = Return(Ok(c_value.val))

\* C18 holds of every cell whose number of scalars is a u32
CellCodecBelowU32 ==
    (EncodedCell /\ Len(c_value.val.scalars) <= WireU32Max) =>
        /\ CellLayout(c_bytes, c_value.val)
        /\ c_pc = "decoded" => c_out = Return(Ok(c_value.val))

\* a cell of two scalars with limbs of several bytes has made the round trip
\* through Cell::to_bytes
CellRoundTrip ==
    /\ c_pc = "decoded" /\ c_value.kind = "MultiProofCell" /\ c_value.via = "Cell"
    /\ Len(c_value.val.scalars) = 2 /\ c_value.val.scalars[1][3] = U64Max
    /\ c_out = Return(Ok(c_value.val))

\* the scalar count the bytes declare
DeclaredCount(bytes) ==
    bytes[65] + ByteMod * bytes[66] + ByteMod^2 * bytes[67] + ByteMod^3 * bytes[68]

\* bytes that are no MultiProofCell: too short, or with a data section that
\* is not 32 bytes for each declared scalar
MalformedCell(bytes) ==
    \/ Len(bytes) < 68
    \/ Len(bytes) - 68 # DeclaredCount(bytes) * 32

Rejected(out) == out.kind = "return" /\ ~out.res.ok

CellDecoded == c_pc \in {"decoded", "rejected"} /\ c_value.kind = "MultiProofCell"
BlockDecoded == c_pc \in {"decoded", "rejected"} /\ c_value.kind = "GCellBlock"

\* C19: MultiProofCell::from_bytes returns Err for bytes shorter than 68
\* and for bytes whose data section is not 32 bytes for each declared
\* scalar, on every target; GCellBlock::from_bytes returns Err for bytes
\* whose length is not 16.
C19_MalformedRejected ==
    /\ (CellDecoded /\ MalformedCell(c_bytes)) => Rejected(c_out)
    /\ (BlockDecoded /\ Len(c_bytes) # 16) => Rejected(c_out)

\* C19 holds where a usize has eight bytes, and of GCellBlock::from_bytes
MalformedRejectedOn64Bit ==
    /\ (CellDecoded /\ MalformedCell(c_bytes) /\ c_usize = 8) => Rejected(c_out)
    /\ (BlockDecoded /\ Len(c_bytes) # 16) => Rejected(c_out)

\* where a usize has four bytes, from_bytes returns Err or panics, and never
\* accepts malformed bytes
MalformedNeverAccepted ==
    (CellDecoded /\ MalformedCell(c_bytes)) => ~(c_out.kind = "return" /\ c_out.res.ok)

\* short bytes and bytes with a wrong data section have been rejected
ShortRejected ==
    CellDecoded /\ Len(c_bytes) = 67 /\ Rejected(c_out) /\ c_usize = 4
MismatchRejected ==
    CellDecoded /\ Len(c_bytes) = 100 /\ DeclaredCount(c_bytes) = 2 /\ Rejected(c_out)

\* C20: the bytes of a GCellBlock are 16: start_x, start_y, end_x, end_y,
\* each a little-endian u32; from_bytes of them is Ok of the block.
C20_GCellBlockCodec ==
    /\ EncodedBlock => (Len(c_bytes) = 16 /\ BlockLayout(c_bytes, 0, c_value.val))
    /\ (c_pc = "decoded" /\ c_value.kind = "GCellBlock") => c_out = Return(Ok(c_value.val))

\* a block of four different values, among them the largest u32 and one of
\* several bytes, has made the round trip
C20_Witness ==
    /\ c_pc = "decoded" /\ c_value.kind = "GCellBlock"
    /\ c_value.val = GCellBlock(1, WireU32Max, ByteMod, 0)
    /\ c_out = Return(Ok(c_value.val))


\* C21: proof() is bytes 0..48 of the content and data() is bytes 48..80, so
\* the proof followed by the data is the content; neither accessor panics.
C21_SingleCellSplit ==
    c_pc = "split" =>
        /\ c_out.proof.kind = "return" /\ c_out.data.kind = "return"
        /\ Len(c_out.proof.res) = 48 /\ Len(c_out.data.res) = 32
        /\ \A i \in 1..48 : c_out.proof.res[i] = c_value.val[i]
        /\ \A i \in 1..32 : c_out.data.res[i] = c_value.val[48 + i]
        /\ c_out.proof.res \o c_out.data.res = c_value.val

\* a content whose bytes 32..48 differ from its bytes 48..80 has been split
C21_Witness ==
    /\ c_pc = "split" /\ c_out.proof.kind = "return" /\ c_out.data.kind = "return"
    /\ c_value.val[48] # c_value.val[49] /\ c_value.val[1] # c_value.val[80]
    /\ c_out.proof.res \o c_out.data.res = c_value.val


\* the entry of a row holds, for every column, the data of a cell supplied
\* for that column of the row
CompleteEntry(e, cells, cols) ==
    /\ Len(e.bytes) = 32 * cols
    /\ \A x \in 0..(cols - 1) :
        \E k \in 1..Len(cells) :
            /\ cells[k].position = Position(e.row, x)
            /\ SubSeq(e.bytes, 32 * x + 1, 32 * x + 32) = SubSeq(cells[k].content, 49, 80)

\* a cell was supplied for every column of the row
RowSupplied(y, cells, cols) ==
    \A x \in 0..(cols - 1) : \E k \in 1..Len(cells) : cells[k].position = Position(y, x)

\* C22: rows returns an entry for a row only if a cell was supplied for
\* every column of the row; the entry is the data of the row's cells in
\* ascending column order; the entries are in ascending row order; this
\* holds for any order of the cells and with positions given more than once.
C22_RowsComplete ==
    c_pc = "merged" =>
        LET out == c_out.res
            cols == c_value.dimensions.cols
        IN  /\ \A i \in 1..Len(out) : CompleteEntry(out[i], c_value.val, cols)
            /\ \A i \in 1..Len(out), j \in 1..Len(out) : i < j => out[i].row < out[j].row

\* positions all different and inside the columns
DistinctCells(cells, cols) ==
    /\ \A k \in 1..Len(cells) : cells[k].position.col < cols
    /\ \A k \in 1..Len(cells), l \in 1..Len(cells) :
            k # l => cells[k].position # cells[l].position

\* C22 holds of cells with different positions inside the columns, and then
\* every row supplied in full is returned
RowsOfDistinctCells ==
    (c_pc = "merged" /\ DistinctCells(c_value.val, c_value.dimensions.cols)) =>
        LET out == c_out.res
            cols == c_value.dimensions.cols
        IN  /\ \A i \in 1..Len(out) : CompleteEntry(out[i], c_value.val, cols)
            /\ \A i \in 1..Len(out), j \in 1..Len(out) : i < j => out[i].row < out[j].row
            /\ \A y \in 0..1 : RowSupplied(y, c_value.val, cols) =>
                    \E i \in 1..Len(out) : out[i].row = y

\* cells given out of order: the complete row is returned, the other is not
RowsMerged ==
    /\ c_pc = "merged" /\ Len(c_value.val) = 3
    /\ c_value.val[1].position = Position(1, 1) /\ c_value.val[2].position = Position(0, 1)
    /\ c_value.val[3].position = Position(0, 0)
    /\ Len(c_out.res) = 1 /\ c_out.res[1].row = 0
    /\ c_out.res[1].bytes = CellData32(0) \o CellData32(1)

----------------------------------------------------------------------------
(* C23: the stored row counts *)

\* C23: for every accepted input, rows_per_tx has one entry per submitted
\* transaction, in input order, equal to the transaction's length, and its
\* sum is len(); lengths of 65536 and more are stored whole.
C23_RowsPerTxExact ==
    (origin = "built" /\ built.ok) =>
        /\ built.val.rows_per_tx = [k \in 1..Len(iter) |-> iter[k].len]
        /\ SumSeq(built.val.rows_per_tx) = len(built.val)

\* C23 holds of every accepted input whose lengths are all below 65536
RowsPerTxBelowU16 ==
    (origin = "built" /\ built.ok /\ \A k \in 1..Len(iter) : iter[k].len < U16Mod) =>
        /\ built.val.rows_per_tx = [k \in 1..Len(iter) |-> iter[k].len]
        /\ SumSeq(built.val.rows_per_tx) = len(built.val)

\* three transactions of two applications have been stored
RowsPerTxStored ==
    /\ origin = "built" /\ built.ok /\ Len(iter) = 3 /\ Len(built.val.index) = 2
    /\ built.val.rows_per_tx = <<iter[1].len, iter[2].len, iter[3].len>>

----------------------------------------------------------------------------
(* C24: the padded length *)

\* the chunks the payload and its marker byte need, and the bytes they take
ChunksOf(n) == (n + 1 + DATA_CHUNK_SIZE - 1) \div DATA_CHUNK_SIZE
PaddedBytes(n, chunk_size) == ChunksOf(n) * chunk_size

\* C24: for every len and every chunk_size >= DATA_CHUNK_SIZE, padded_len is
\* ceil((len + 1) / DATA_CHUNK_SIZE) * chunk_size, greater than len, and is
\* computed without overflow.
C24_PaddedLen ==
    c_pc = "padded" =>
        /\ c_out = Return(PaddedBytes(c_value.len, c_value.chunk_size))
        /\ c_out.res > c_value.len

\* C24 holds whenever the padded length is a u32
PaddedLenInRange ==
    (c_pc = "padded" /\ PaddedBytes(c_value.len, c_value.chunk_size) <= U32Max) =>
        /\ c_out = Return(PaddedBytes(c_value.len, c_value.chunk_size))
        /\ c_out.res > c_value.len

\* a payload that fills its chunks but for the marker byte, and one more
PaddedLenAtChunkEdge ==
    /\ c_pc = "padded" /\ c_value.len \in {30, 31} /\ c_value.chunk_size = 32
    /\ c_out = Return(IF c_value.len = 30 THEN 32 ELSE 64)

----------------------------------------------------------------------------
(* C25: projected ranges *)

\* the product of a and b is a u32
ProductFits(a, b) == a * b <= U32Max

\* the entry of app_id the queries see: the first one
FirstEntry(l, app_id) ==
    l.index[CHOOSE i \in 1..Len(l.index) :
                /\ l.index[i].id = app_id
                /\ \A j \in 1..(i - 1) : l.index[j].id # app_id]
HasEntry(l, app_id) == \E i \in 1..Len(l.index) : l.index[i].id = app_id

\* C25: projected_range_of is Some(start * chunk_size .. end * chunk_size)
\* when the app id has a range and both products are u32, and None when the
\* app id is absent or a product is not a u32; projected_ranges is
\* Err(OffsetOverflows) exactly when a product of some entry is not a u32,
\* and otherwise Ok of every entry projected.
C25_Projection ==
    /\ last.op = "projected_range_of" =>
        LET app_id == last.arg[1]
            chunk_size == last.arg[2]
        IN  IF /\ HasEntry(lookup.val, app_id)
               /\ ProductFits(FirstEntry(lookup.val, app_id).range.start, chunk_size)
               /\ ProductFits(FirstEntry(lookup.val, app_id).range.end, chunk_size)
            THEN last.out = Some(Range(FirstEntry(lookup.val, app_id).range.start * chunk_size,
                                       FirstEntry(lookup.val, app_id).range.end * chunk_size))
            ELSE last.out = None
    /\ last.op = "projected_ranges" =>
        LET index == lookup.val.index
            chunk_size == last.arg
        IN  IF \A i \in 1..Len(index) :
                    /\ ProductFits(index[i].range.start, chunk_size)
                    /\ ProductFits(index[i].range.end, chunk_size)
            THEN last.out = Ok([i \in 1..Len(index) |->
                                  [id |-> index[i].id,
                                   range |-> Range(index[i].range.start * chunk_size,
                                                   index[i].range.end * chunk_size)]])
            ELSE last.out = Err(OffsetOverflows)

\* a range whose start projects to a u32 and whose end does not has been
\* asked for, and refused
C25_Witness ==
    /\ last.op = "projected_range_of" /\ last.out = None
    /\ HasEntry(lookup.val, last.arg[1])
    /\ ProductFits(FirstEntry(lookup.val, last.arg[1]).range.start, last.arg[2])
    /\ FirstEntry(lookup.val, last.arg[1]).range.start > 0
    /\ ~ProductFits(FirstEntry(lookup.val, last.arg[1]).range.end, last.arg[2])

\* ranges have been projected by a chunk size of 32, and refused as a whole
RangesProjected ==
    /\ last.op = "projected_ranges" /\ last.out.ok /\ Len(last.out.val) = 2
    /\ last.arg = 32 /\ last.out.val[2].range.end > 32
RangesRefused ==
    /\ last.op = "projected_ranges" /\ last.out = Err(OffsetOverflows)
    /\ Len(lookup.val.index) = 2
    /\ ProductFits(lookup.val.index[1].range.end, last.arg)

----------------------------------------------------------------------------
(* C26: Justifications *)

\* the collection the k-th call left
After(k) == IF k < Len(j_log) THEN j_log[k + 1].before ELSE j_list

HasEngine(list, id) == \E i \in 1..Len(list) : list[i][1] = id

\* the k-th call put a justification of the engine into the collection
Inserted(k, id) ==
    /\ j_log[k].op \in {"from", "append"} /\ j_log[k].out
    /\ j_log[k].arg[1] = id

\* the last call that inserted the engine and was not followed by its removal
LiveInsert(id) ==
    {k \in 1..Len(j_log) :
        /\ Inserted(k, id)
        /\ \A m \in (k + 1)..Len(j_log) :
                ~Inserted(m, id) /\ ~(j_log[m].op = "remove" /\ j_log[m].arg = id)}

\* C26: append returns true and adds the justification at the end when its
\* engine is absent, and returns false and changes nothing otherwise; remove
\* deletes the entry of the engine and nothing else; so every engine occurs
\* at most once, get returns the value of the last successful append of the
\* engine that no remove followed, and the entries are in insertion order.
C26_OnePerEngine ==
    /\ \A k \in 1..Len(j_log) :
        /\ j_log[k].op = "append" =>
            IF HasEngine(j_log[k].before, j_log[k].arg[1])
            THEN ~j_log[k].out /\ After(k) = j_log[k].before
            ELSE j_log[k].out /\ After(k) = Append(j_log[k].before, j_log[k].arg)
        /\ j_log[k].op = "remove" =>
            /\ ~HasEngine(After(k), j_log[k].arg)
            /\ After(k) = SelectSeq(j_log[k].before, LAMBDA j : j[1] # j_log[k].arg)
    /\ \A i, l \in 1..Len(j_list) : i # l => j_list[i][1] # j_list[l][1]
    /\ \A id \in EngineIds :
        IF LiveInsert(id) = {} THEN get(j_list, id) = None
        ELSE \A k \in LiveInsert(id) : get(j_list, id) = Some(j_log[k].arg[2])
    /\ \A i, l \in 1..Len(j_list) :
        i < l => \A k \in LiveInsert(j_list[i][1]), m \in LiveInsert(j_list[l][1]) : k < m

\* an append was refused, the engine was removed and appended again with
\* another value, behind an engine inserted in between
C26_Witness ==
    /\ Len(j_log) = 5 /\ Len(j_list) = 2
    /\ j_log[2].op = "append" /\ ~j_log[2].out
    /\ j_log[3].op = "append" /\ j_log[3].out
    /\ j_log[4].op = "remove" /\ j_log[4].arg = j_log[1].arg[1]
    /\ j_log[5].op = "append" /\ j_log[5].out /\ j_log[5].arg[1] = j_log[1].arg[1]
    /\ j_log[5].arg[2] # j_log[1].arg[2]
    /\ j_list = <<j_log[3].arg, j_log[5].arg>>

----------------------------------------------------------------------------
(* C27: AppUncheckedExtrinsic codec *)

XtEncoded == c_pc \in {"xt_encoded", "xt_decoded"} /\ c_value.tamper = "none"
XtDecoded(tamper) == c_pc = "xt_decoded" /\ c_value.tamper = tamper

\* the bytes are a compact length, then that many bytes that start with the
\* version byte of the extrinsic, and are the encoding of a Vec<u8>
XtLayout ==
    LET prefix == Compact_decode(c_bytes, 0)
        vec == Vec_decode(c_bytes, 0)
    IN  /\ prefix.ok
        /\ RunLen(c_bytes) = prefix.pos + prefix.val
        /\ prefix.val >= 1
        /\ ByteAt(c_bytes, prefix.pos) =
              IF c_value.val.signature.some THEN 132 ELSE 4
        /\ vec.ok /\ vec.pos = RunLen(c_bytes)
        /\ Joined(Vec_encode(vec.val)) = Joined(c_bytes)

\* C27: encode(x) is a compact length prefix followed by exactly that many
\* body bytes, the first of them the version 4 with the top bit set iff x is
\* signed, and so is an encoding of a Vec<u8>; decode(encode(x)) = x; decode
\* fails when the version bits are not 4 and fails with "Invalid length
\* prefix" when the prefix is not the number of body bytes consumed.
C27_ExtrinsicCodec ==
    /\ XtEncoded => XtLayout
    /\ XtDecoded("none") => c_out = Return(Ok(c_value.val))
    /\ XtDecoded("version") => (c_out.kind = "return" /\ ~c_out.res.ok)
    /\ XtDecoded("prefix") => c_out = Return(Err("Invalid length prefix"))

\* the body of the extrinsic has at most u32::MAX bytes
XtBodyFits == RunLen(ExtrinsicBody(c_value.val)) <= U32Max

\* with a body of at most u32::MAX bytes read from a slice, all of it holds
ExtrinsicCodecOfSlices ==
    /\ (XtEncoded /\ XtBodyFits) => XtLayout
    /\ (XtDecoded("none") /\ XtBodyFits) => c_out = Return(Ok(c_value.val))
    /\ XtDecoded("version") => c_out = Return(Err("Invalid transaction version"))
    /\ (XtDecoded("prefix") /\ XtBodyFits /\ ~c_value.reader)
            => c_out = Return(Err("Invalid length prefix"))

\* a signed extrinsic came back from its encoding
XtRoundTrip ==
    /\ XtDecoded("none") /\ c_value.val.signature.some /\ c_value.reader
    /\ RunLen(c_value.val.function) = 2^14
    /\ c_out = Return(Ok(c_value.val))

\* an extrinsic whose body is longer than u32::MAX is not decoded
XtLengthTruncated ==
    /\ XtDecoded("none") /\ ~XtBodyFits /\ ~c_value.reader
    /\ c_out = Return(Err("Invalid length prefix"))

\* a reader of a stream accepts a prefix that is not the number of body bytes
XtPrefixUnchecked ==
    /\ XtDecoded("prefix") /\ XtBodyFits /\ c_value.reader
    /\ c_out = Return(Ok(c_value.val))

----------------------------------------------------------------------------
(* C28: DataProof::try_from *)

Converted == c_pc \in {"converted", "restored"}
ConvertedTo(kind) == c_out = Return(Err([kind |-> kind]))
BadRoot == Len(c_value.val.root) # 32
BadLeaf == Len(c_value.val.leaf) # 32
BadProof(i) == Len(c_value.val.proof[i + 1]) # 32
BadProofs == {i \in 0..(Len(c_value.val.proof) - 1) : BadProof(i)}
BadHashes == BadRoot \/ BadLeaf \/ BadProofs # {}
LeavesOverflow == c_value.val.number_of_leaves > U32Max
NoLeaves == c_value.val.number_of_leaves = 0
IndexOverflow == c_value.val.leaf_index > U32Max
IndexOutside == c_value.val.leaf_index >= c_value.val.number_of_leaves

\* C28 as stated: each condition returns its error whatever else holds of
\* the proof; every Ok result has leaf_index < number_of_leaves and converts
\* back to the input.
C28_EachConditionItsError ==
    Converted =>
        /\ NoLeaves => ConvertedTo("InvalidNumberOfLeaves")
        /\ IndexOutside => ConvertedTo("InvalidLeafIndex")
        /\ LeavesOverflow => ConvertedTo("OverflowedNumberOfLeaves")
        /\ IndexOverflow => ConvertedTo("OverflowedLeafIndex")
        /\ BadRoot => ConvertedTo("InvalidRoot")
        /\ BadLeaf => ConvertedTo("InvalidLeaf")
        /\ \A i \in BadProofs : c_out = Return(Err([kind |-> "InvalidProof", idx |-> i]))
        /\ c_out.res.ok => c_out.res.val.leaf_index < c_out.res.val.number_of_leaves
        /\ c_pc = "restored" => c_bytes = c_value.val

\* C28 (amended): the first check that fails decides the error, in the order
\* root, leaf, first proof item that is not 32 bytes, number of leaves over
\* u32, number of leaves zero, leaf index over u32, leaf index not below the
\* number of leaves; the result is Ok exactly when none fails, it then has
\* leaf_index < number_of_leaves, and converting it back gives the input.
C28_FirstFailingCheck ==
    Converted =>
        /\ BadRoot => ConvertedTo("InvalidRoot")
        /\ (~BadRoot /\ BadLeaf) => ConvertedTo("InvalidLeaf")
        /\ (~BadRoot /\ ~BadLeaf) =>
                \A i \in BadProofs :
                    (\A k \in BadProofs : i <= k)
                        => c_out = Return(Err([kind |-> "InvalidProof", idx |-> i]))
        /\ (~BadHashes /\ LeavesOverflow) => ConvertedTo("OverflowedNumberOfLeaves")
        /\ (~BadHashes /\ NoLeaves) => ConvertedTo("InvalidNumberOfLeaves")
        /\ (~BadHashes /\ ~LeavesOverflow /\ ~NoLeaves /\ IndexOverflow)
                => ConvertedTo("OverflowedLeafIndex")
        /\ (~BadHashes /\ ~LeavesOverflow /\ ~NoLeaves /\ ~IndexOverflow /\ IndexOutside)
                => ConvertedTo("InvalidLeafIndex")
        /\ c_out.res.ok <=> ~(BadHashes \/ LeavesOverflow \/ NoLeaves \/ IndexOverflow
                                \/ IndexOutside)
        /\ c_out.res.ok =>
                /\ c_out.res.val.leaf_index < c_out.res.val.number_of_leaves
                /\ to_beefy_merkle_proof(c_out.res.val) = c_value.val
        /\ c_pc = "restored" => c_bytes = c_value.val

\* a proof of the last leaf of U32Max leaves was converted and restored
C28_Witness ==
    /\ c_pc = "restored" /\ c_bytes = c_value.val
    /\ Len(c_value.val.proof) = 2
    /\ c_value.val.number_of_leaves = U32Max /\ c_value.val.leaf_index = 7

\* a proof without leaves whose index is 0 gets the error of the leaf count
NoLeavesBeforeIndex ==
    /\ Converted /\ ~BadHashes /\ NoLeaves /\ c_value.val.leaf_index = 0
    /\ ConvertedTo("InvalidNumberOfLeaves")

\* an index equal to the number of leaves is refused
IndexAtEndRefused ==
    /\ Converted /\ ~BadHashes /\ c_value.val.leaf_index = 7
    /\ c_value.val.number_of_leaves = 7
    /\ ConvertedTo("InvalidLeafIndex")

----------------------------------------------------------------------------
(* C29: the column bound of verify_v2 and verify *)

CellVerified == v2_pc \in {"returned", "verified"}
\* the checks that come before the position do not fail
BeforePosition ==
    /\ v2_args.commitment.ok /\ CellData(v2_args.cell).ok
    /\ v2_pc = "verified" => CellProof(v2_args.cell).ok
    /\ domain_points(v2_args.width).ok
ColumnOutside == v2_args.cell.position.col >= v2_args.width

\* C29: for every grid width, a power of two or not, verify_v2 and the
\* deprecated verify return Err(InvalidPositionInDomain), and do not get to
\* the pairing check, when the column of the cell is not below the width.
C29_ColumnBound ==
    (CellVerified /\ BeforePosition /\ ColumnOutside)
        => v2_out = Err(InvalidPositionInDomain)

\* for the widths that are a power of two the bound is the width
ColumnBoundOfPow2 ==
    (CellVerified /\ BeforePosition /\ ColumnOutside
        /\ NextPow2(v2_args.width) = v2_args.width)
            => v2_out = Err(InvalidPositionInDomain)

\* the bound is the size of the domain
ColumnBoundOfDomain ==
    (CellVerified /\ BeforePosition
        /\ v2_args.cell.position.col >= NextPow2(v2_args.width))
            => v2_out = Err(InvalidPositionInDomain)

\* a cell in column 3 of a grid of width 3 is verified
ColumnOutsideAccepted ==
    /\ v2_pc = "returned" /\ v2_args.width = 3 /\ v2_args.cell.position.col = 3
    /\ v2_out = Ok(TRUE)
ColumnOutsideAcceptedByVerify ==
    /\ v2_pc = "verified" /\ v2_args.width = 3 /\ v2_args.cell.position.col = 3
    /\ v2_out = Ok(TRUE)

----------------------------------------------------------------------------
(* C30: the number of evaluations of a block *)

MultiAccepted ==
    /\ mp_pc \in {"returned", "flipped"}
    /\ mp_out.kind = "return" /\ mp_out.res = Ok(TRUE)
CellsOf(b) == (b.end_x - b.start_x) * (b.end_y - b.start_y)

\* C30: verify_multi_proof returns Ok(true) only if every block comes with
\* exactly (end_x - start_x) * (end_y - start_y) evaluations; surplus scalars
\* that do not fill a row of the block are not dropped before verification.
C30_EvaluationCount ==
    MultiAccepted =>
        \A i \in 1..Len(mp_args.proof) :
            Len(mp_args.proof[i].evals) = CellsOf(mp_args.proof[i].block)

\* what is bound is the number of whole rows of evaluations: an accepted
\* well-formed block has at least its cells and less than one row more
WholeRowsCounted ==
    MultiAccepted =>
        \A i \in 1..Len(mp_args.proof) :
            LET t == mp_args.proof[i]
            IN  WellFormedBlock(t.block) =>
                    /\ Len(t.evals) >= CellsOf(t.block)
                    /\ Len(t.evals) < CellsOf(t.block) + (t.block.end_x - t.block.start_x)

\* a block of two columns and one row is accepted with three evaluations
SurplusAccepted ==
    /\ MultiAccepted /\ mp_pc = "returned" /\ Len(mp_args.proof) = 1
    /\ mp_args.proof[1].block = GCellBlock(0, 0, 2, 1)
    /\ Len(mp_args.proof[1].evals) = 3

\* ... and is accepted with the two evaluations it has cells for
ExactAccepted ==
    /\ MultiAccepted /\ mp_pc = "returned" /\ Len(mp_args.proof) = 1
    /\ mp_args.proof[1].block = GCellBlock(0, 0, 2, 1)
    /\ Len(mp_args.proof[1].evals) = 2

====
